---------------------------- MODULE Spec2Model ----------------------------
(***************************************************************************)
(* Invoice document synthesis of ClearInvoice-AE (src/utils.py): the       *)
(* Fatoora TLV QR encoder, the PDF / UBL-XML / JSON generators, the bank   *)
(* details resolver and the emirate code mapping.                          *)
(*                                                                         *)
(* Strings are sequences of Unicode code points, bytes are sequences of    *)
(* 0..255.  An optional (nullable) value is a sequence of length 0 (None)  *)
(* or 1 (the value).  A Decimal is [c, e] = c * 10^-e.  A Python float is  *)
(* an IEEE-754 double [m, e] = m * 2^e with a 53-bit significand m held as *)
(* an arbitrary-precision natural (little-endian limbs of 15 bits).        *)
(***************************************************************************)
EXTENDS Integers, Sequences, FiniteSets, Bags, TLC

(***************************************************************************)
(* Optional values                                                         *)
(***************************************************************************)
None == << >>
Some(v) == << v >>
IsNone(o) == Len(o) = 0
Get(o) == o[1]

Min(a, b) == IF a <= b THEN a ELSE b
Max(a, b) == IF a >= b THEN a ELSE b

(***************************************************************************)
(* Arbitrary-precision naturals: little-endian sequences of limbs in       *)
(* 0..Base-1 without leading zero limbs; << >> is 0.                       *)
(***************************************************************************)
Base == 32768
LimbBits == 15

RECURSIVE BigNorm(_)
BigNorm(a) ==
    IF Len(a) > 0 /\ a[Len(a)] = 0 THEN BigNorm(SubSeq(a, 1, Len(a) - 1)) ELSE a

RECURSIVE BigFromInt(_)
BigFromInt(n) ==
    IF n = 0 THEN << >> ELSE << (n % Base) >> \o BigFromInt(n \div Base)

RECURSIVE BigToInt(_)
BigToInt(a) ==
    IF Len(a) = 0 THEN 0 ELSE a[1] + Base * BigToInt(Tail(a))

RECURSIVE BigMulSmall(_, _, _)
BigMulSmall(a, d, carry) ==
    IF Len(a) = 0
    THEN BigFromInt(carry)
    ELSE LET t == a[1] * d + carry
         IN  << t % Base >> \o BigMulSmall(Tail(a), d, t \div Base)

RECURSIVE BigAddC(_, _, _)
BigAddC(a, b, carry) ==
    IF Len(a) = 0 /\ Len(b) = 0
    THEN BigFromInt(carry)
    ELSE LET x == IF Len(a) = 0 THEN 0 ELSE a[1]
             y == IF Len(b) = 0 THEN 0 ELSE b[1]
             t == x + y + carry
         IN  << t % Base >>
             \o BigAddC(IF Len(a) = 0 THEN a ELSE Tail(a),
                        IF Len(b) = 0 THEN b ELSE Tail(b), t \div Base)

BigAdd(a, b) == BigNorm(BigAddC(a, b, 0))

RECURSIVE BigMulR(_, _)
BigMulR(a, b) ==
    IF Len(b) = 0
    THEN << >>
    ELSE BigAddC(BigMulSmall(a, b[1], 0), << 0 >> \o BigMulR(a, Tail(b)), 0)

BigMul(a, b) == BigNorm(BigMulR(a, b))

\* quotient and remainder of a by a small divisor d (d < 2^16), from the top limb down
RECURSIVE BigDivStep(_, _, _, _)
BigDivStep(a, d, i, rem) ==
    IF i = 0
    THEN [q |-> << >>, r |-> rem]
    ELSE LET cur  == rem * Base + a[i]
             rest == BigDivStep(a, d, i - 1, cur % d)
         IN  [q |-> rest.q \o << cur \div d >>, r |-> rest.r]

BigDivSmall(a, d) == BigNorm(BigDivStep(a, d, Len(a), 0).q)
BigModSmall(a, d) == BigDivStep(a, d, Len(a), 0).r

SmallBitLen(x) == CHOOSE k \in 0..LimbBits : (x < 2^k) /\ (k = 0 \/ x >= 2^(k - 1))

BitLen(a) ==
    IF Len(a) = 0 THEN 0 ELSE LimbBits * (Len(a) - 1) + SmallBitLen(a[Len(a)])

BigBit(a, i) ==
    LET j == (i \div LimbBits) + 1
    IN  IF j > Len(a) THEN 0 ELSE (a[j] \div 2^(i % LimbBits)) % 2

\* some bit of a below position i is set
BigSticky(a, i) ==
    LET j == i \div LimbBits
    IN  \/ \E n \in 1..Min(j, Len(a)) : a[n] # 0
        \/ (j + 1 <= Len(a) /\ a[j + 1] % 2^(i % LimbBits) # 0)

BigShl(a, k) ==
    IF Len(a) = 0
    THEN a
    ELSE [n \in 1..(k \div LimbBits) |-> 0] \o BigMulSmall(a, 2^(k % LimbBits), 0)

BigShr(a, k) ==
    LET j == k \div LimbBits
    IN  IF j >= Len(a)
        THEN << >>
        ELSE BigDivSmall(SubSeq(a, j + 1, Len(a)), 2^(k % LimbBits))

\* q = a \div 2^k moved to the nearest integer to a / 2^k, ties to even
BigRoundUp(a, k, q) ==
    IF BigBit(a, k - 1) = 1 /\ (BigSticky(a, k - 1) \/ BigBit(q, 0) = 1)
    THEN BigAdd(q, << 1 >>)
    ELSE q

\* a / 2^k rounded to the nearest integer, ties to even
BigRoundShr(a, k) == IF k = 0 THEN a ELSE BigRoundUp(a, k, BigShr(a, k))

(***************************************************************************)
(* decimal.Decimal: [c |-> coefficient, e |-> decimal places], value       *)
(* c / 10^e, c >= 0.  Sums and products are exact.  A Decimal is held by    *)
(* its value, without trailing zeros (1.50 as [15, 1]): its truth value,   *)
(* its float() and its ".2f" text depend on the value only.                *)
(***************************************************************************)
RECURSIVE DNorm(_)
DNorm(x) ==
    IF x.c = 0 THEN [c |-> 0, e |-> 0]
    ELSE IF x.e > 0 /\ x.c % 10 = 0 THEN DNorm([c |-> x.c \div 10, e |-> x.e - 1])
    ELSE x

Dec(c, e) == DNorm([c |-> c, e |-> e])
DZero == Dec(0, 0)

DAdd(x, y) ==
    LET e == Max(x.e, y.e)
    IN  Dec(x.c * 10^(e - x.e) + y.c * 10^(e - y.e), e)

DMul(x, y) == Dec(x.c * y.c, x.e + y.e)

DIsZero(x) == x.c = 0

\* Decimal.__format__(".2f"): quantize to two places, ROUND_HALF_EVEN; the
\* result is the number of hundredths printed
DecToCents(x) ==
    IF x.e <= 2
    THEN x.c * 10^(2 - x.e)
    ELSE LET d == 10^(x.e - 2)
             q == x.c \div d
             r == x.c % d
         IN  IF 2 * r > d \/ (2 * r = d /\ q % 2 = 1) THEN q + 1 ELSE q

(***************************************************************************)
(* Python float (IEEE-754 binary64, round-to-nearest-even).  The values    *)
(* handled stay far inside the normal exponent range.                      *)
(***************************************************************************)
Mantissa == 53
FZero == [m |-> << >>, e |-> 0]
FIsZero(x) == Len(x.m) = 0

\* q * 2^e with q of Mantissa bits, or of one more after a carry out of
\* the rounding
FloatCarry(q, e) ==
    IF BitLen(q) > Mantissa THEN [m |-> BigShr(q, 1), e |-> e + 1] ELSE [m |-> q, e |-> e]

\* the double nearest to n * 2^e, n of L bits
FloatRoundBits(n, e, L) ==
    IF L = 0 THEN FZero
    ELSE IF L <= Mantissa
    THEN [m |-> BigShl(n, Mantissa - L), e |-> e - (Mantissa - L)]
    ELSE FloatCarry(BigRoundShr(n, L - Mantissa), e + (L - Mantissa))

\* the double nearest to n * 2^e
FloatRound(n, e) == FloatRoundBits(n, e, BitLen(n))

\* float(Decimal): the double nearest to c / 10^e (correctly rounded); the
\* quotient keeps at least two guard bits and a sticky bit
FloatQuotient(num, d, s) ==
    FloatRound(BigAdd(BigShl(BigDivSmall(num, d), 1),
                      BigFromInt(IF BigModSmall(num, d) = 0 THEN 0 ELSE 1)),
               0 - s - 1)

FloatRatio(c, d, s) == FloatQuotient(BigShl(BigFromInt(c), s), d, s)

FloatOfDec(x) ==
    IF x.c = 0 THEN FZero
    ELSE FloatRatio(x.c, 10^x.e, Mantissa + 3 + SmallBitLen(10^x.e))

FMul(x, y) ==
    IF FIsZero(x) \/ FIsZero(y) THEN FZero
    ELSE FloatRound(BigMul(x.m, y.m), x.e + y.e)

FAdd(x, y) ==
    IF FIsZero(x) THEN y
    ELSE IF FIsZero(y) THEN x
    ELSE LET e == Min(x.e, y.e)
         IN  FloatRound(BigAdd(BigShl(x.m, x.e - e), BigShl(y.m, y.e - e)), e)

\* float.__format__ with a fixed number of places: the exact binary value
\* times scale (100 for ".2f", 1 for ".0f") rounded to an integer, ties to even
BigScaled(n, e) ==
    IF e >= 0 THEN BigToInt(BigShl(n, e)) ELSE BigToInt(BigRoundShr(n, 0 - e))

FloatToUnits(x, scale) ==
    IF FIsZero(x) THEN 0 ELSE BigScaled(BigMulSmall(x.m, scale, 0), x.e)

\* the number of hundredths printed by f"{x:.2f}"
FloatToCents(x) == FloatToUnits(x, 100)

(***************************************************************************)
(* Strings, UTF-8, base64                                                  *)
(***************************************************************************)
RECURSIVE Flatten(_)
Flatten(ss) ==
    IF Len(ss) = 0 THEN << >>
    ELSE IF Len(ss) = 1 THEN ss[1]
    ELSE LET h == Len(ss) \div 2
         IN  Flatten(SubSeq(ss, 1, h)) \o Flatten(SubSeq(ss, h + 1, Len(ss)))

\* str.encode("utf-8") of one code point
Utf8Char(cp) ==
    IF cp < 128 THEN << cp >>
    ELSE IF cp < 2048 THEN << 192 + (cp \div 64), 128 + (cp % 64) >>
    ELSE IF cp < 65536
    THEN << 224 + (cp \div 4096), 128 + ((cp \div 64) % 64), 128 + (cp % 64) >>
    ELSE << 240 + (cp \div 262144), 128 + ((cp \div 4096) % 64),
            128 + ((cp \div 64) % 64), 128 + (cp % 64) >>

Utf8(s) == Flatten([i \in 1..Len(s) |-> Utf8Char(s[i])])

\* str.upper() on ASCII letters
UpperChar(c) == IF c >= 97 /\ c <= 122 THEN c - 32 ELSE c
Upper(s) == [i \in 1..Len(s) |-> UpperChar(s[i])]

\* str.strip(): leading and trailing blanks removed
IsSpace(c) == c \in {32, 9, 10, 13}
RECURSIVE LStrip(_)
LStrip(s) == IF Len(s) > 0 /\ IsSpace(s[1]) THEN LStrip(Tail(s)) ELSE s
RECURSIVE RStrip(_)
RStrip(s) ==
    IF Len(s) > 0 /\ IsSpace(s[Len(s)]) THEN RStrip(SubSeq(s, 1, Len(s) - 1)) ELSE s
Strip(s) == RStrip(LStrip(s))

\* s[:n]
Prefix(s, n) == SubSeq(s, 1, Min(n, Len(s)))

B64Pad == 61
B64Char(v) ==
    IF v < 26 THEN 65 + v
    ELSE IF v < 52 THEN 97 + (v - 26)
    ELSE IF v < 62 THEN 48 + (v - 52)
    ELSE IF v = 62 THEN 43 ELSE 47

B64Value(c) ==
    IF c >= 65 /\ c <= 90 THEN c - 65
    ELSE IF c >= 97 /\ c <= 122 THEN c - 97 + 26
    ELSE IF c >= 48 /\ c <= 57 THEN c - 48 + 52
    ELSE IF c = 43 THEN 62
    ELSE IF c = 47 THEN 63 ELSE 0

\* base64.b64encode(b).decode("utf-8")
b64encode(b) ==
    LET n == Len(b)
        at(i) == IF i <= n THEN b[i] ELSE 0
        ch(g, k) ==
            LET b0 == at(3 * g + 1)
                b1 == at(3 * g + 2)
                b2 == at(3 * g + 3)
            IN  IF k = 0 THEN B64Char(b0 \div 4)
                ELSE IF k = 1 THEN B64Char(((b0 % 4) * 16) + (b1 \div 16))
                ELSE IF k = 2
                THEN (IF 3 * g + 2 > n THEN B64Pad
                      ELSE B64Char(((b1 % 16) * 4) + (b2 \div 64)))
                ELSE (IF 3 * g + 3 > n THEN B64Pad ELSE B64Char(b2 % 64))
    IN  [i \in 1..(4 * ((n + 2) \div 3)) |-> ch((i - 1) \div 4, (i - 1) % 4)]

\* base64.b64decode(t) of a padded base64 text
b64decode(t) ==
    LET n    == Len(t)
        npad == IF n >= 2 /\ t[n] = B64Pad /\ t[n - 1] = B64Pad THEN 2
                ELSE IF n >= 1 /\ t[n] = B64Pad THEN 1 ELSE 0
        v(i) == B64Value(t[i])
        by(g, k) ==
            IF k = 0 THEN (v(4 * g + 1) * 4) + (v(4 * g + 2) \div 16)
            ELSE IF k = 1 THEN ((v(4 * g + 2) % 16) * 16) + (v(4 * g + 3) \div 4)
            ELSE ((v(4 * g + 3) % 4) * 64) + v(4 * g + 4)
    IN  [i \in 1..(3 * (n \div 4) - npad) |-> by((i - 1) \div 3, (i - 1) % 3)]

(***************************************************************************)
(* Number formatting                                                       *)
(***************************************************************************)
Digit(d) == 48 + d
RECURSIVE IntStr(_)
IntStr(n) == IF n < 10 THEN << Digit(n) >> ELSE IntStr(n \div 10) \o << Digit(n % 10) >>

\* the "," option: groups of three digits
RECURSIVE IntStrComma(_)
IntStrComma(n) ==
    IF n < 1000 THEN IntStr(n)
    ELSE IntStrComma(n \div 1000)
         \o << 44, Digit((n \div 100) % 10), Digit((n \div 10) % 10), Digit(n % 10) >>

Frac2(cents) == << 46, Digit((cents \div 10) % 10), Digit(cents % 10) >>

\* the text of format(x, ".2f") and of format(x, ",.2f") for x printing as
\* cents hundredths
Fmt2(cents) == IntStr(cents \div 100) \o Frac2(cents)
FmtComma2(cents) == IntStrComma(cents \div 100) \o Frac2(cents)

AED == << 65, 69, 68, 32 >>  \* "AED "

Pad2(n) == << Digit((n \div 10) % 10), Digit(n % 10) >>
Pad4(n) == Pad2(n \div 100) \o Pad2(n % 100)

\* date.isoformat() and date.strftime("%Y-%m-%d") of a date [y, m, d]
IsoDate(d) == Pad4(d.y) \o << 45 >> \o Pad2(d.m) \o << 45 >> \o Pad2(d.d)

(***************************************************************************)
(* String literals                                                         *)
(***************************************************************************)
S_AbuDhabi == << 65, 98, 117, 32, 68, 104, 97, 98, 105 >>  \* "Abu Dhabi"
S_AbuDhabiJoined == << 65, 98, 117, 68, 104, 97, 98, 105 >>  \* "AbuDhabi"
S_Abu_Dhabi == << 65, 98, 117, 95, 68, 104, 97, 98, 105 >>  \* "Abu_Dhabi"
S_Dubai == << 68, 117, 98, 97, 105 >>  \* "Dubai"
S_Sharjah == << 83, 104, 97, 114, 106, 97, 104 >>  \* "Sharjah"
S_Ajman == << 65, 106, 109, 97, 110 >>  \* "Ajman"
S_UmmAlQuwain == << 85, 109, 109, 32, 65, 108, 32, 81, 117, 119, 97, 105, 110 >>  \* "Umm Al Quwain"
S_RasAlKhaimah == << 82, 97, 115, 32, 65, 108, 32, 75, 104, 97, 105, 109, 97, 104 >>  \* "Ras Al Khaimah"
S_Fujairah == << 70, 117, 106, 97, 105, 114, 97, 104 >>  \* "Fujairah"
S_AD == << 65, 68 >>  \* "AD"
S_DU == << 68, 85 >>  \* "DU"
S_SH == << 83, 72 >>  \* "SH"
S_AZ == << 65, 90 >>  \* "AZ"
S_AJ == << 65, 74 >>  \* "AJ"
S_UQ == << 85, 81 >>  \* "UQ"
S_RK == << 82, 75 >>  \* "RK"
S_FU == << 70, 85 >>  \* "FU"
S_Foo == << 70, 111, 111 >>  \* "Foo"
S_FO == << 70, 79 >>  \* "FO"
S_DubaiLead == << 32, 68, 117, 98, 97, 105 >>  \* " Dubai"
S_Acme == << 65, 99, 109, 101 >>  \* "Acme"
S_Cafe == << 67, 97, 102, 233, 32, 8364 >>  \* "Cafe' EUR": e-acute (2 bytes), euro sign (3 bytes)
S_TRN == << 49, 48, 48, 50, 48, 48, 51, 48, 48, 52, 48, 48, 48, 48, 51 >>  \* "100200300400003"
S_Now1 == << 50, 48, 50, 54, 45, 49, 49, 45, 48, 52, 84, 48, 57, 58, 51, 48, 58, 48, 48, 46, 48, 48, 48, 48, 48, 49 >>  \* "2026-11-04T09:30:00.000001"
S_Now2 == << 50, 48, 50, 54, 45, 49, 49, 45, 48, 52, 84, 48, 57, 58, 51, 48, 58, 48, 48, 46, 48, 48, 48, 48, 48, 50 >>  \* "2026-11-04T09:30:00.000002"

S_NoneText == << 78, 111, 110, 101 >>  \* "None"

\* a name of n letters "A" (n UTF-8 bytes)
LongName(n) == [i \in 1..n |-> 65]

(***************************************************************************)
(* Utilities / configuration                                               *)
(***************************************************************************)
EMIRATE_CODE_MAP ==
    << << S_AbuDhabi, S_AZ >>, << S_AbuDhabiJoined, S_AZ >>, << S_Abu_Dhabi, S_AZ >>,
       << S_Dubai, S_DU >>, << S_Sharjah, S_SH >>, << S_Ajman, S_AJ >>,
       << S_UmmAlQuwain, S_UQ >>, << S_RasAlKhaimah, S_RK >>, << S_Fujairah, S_FU >>,
       << S_AD, S_AZ >>, << S_DU, S_DU >>, << S_SH, S_SH >> >>

\* dict.get(key, default) on a dict held as a sequence of <<key, value>>
DictGet(d, key, default) ==
    IF \E i \in 1..Len(d) : d[i][1] = key
    THEN d[CHOOSE i \in 1..Len(d) : d[i][1] = key][2]
    ELSE default

\* truthiness of an optional string: None and "" are falsy
Truthy(o) == ~IsNone(o) /\ Len(Get(o)) > 0

\* "a or b" on optional strings
Or(a, b) == IF Truthy(a) THEN a ELSE b

\* variant: the table is searched with the name as given, not stripped
get_emirate_code_unstripped(emirate_name) ==
    IF ~Truthy(emirate_name)
    THEN << >>
    ELSE DictGet(EMIRATE_CODE_MAP, Get(emirate_name),
                 Upper(Prefix(Get(emirate_name), 2)))

get_emirate_code(emirate_name) ==
    IF ~Truthy(emirate_name)
    THEN << >>
    ELSE DictGet(EMIRATE_CODE_MAP, Strip(Get(emirate_name)),
                 Upper(Prefix(Get(emirate_name), 2)))

safe_text(value) == IF IsNone(value) THEN << >> ELSE Get(value)

\* f"{value}": str() of the value, which is "None" for None
FStr(value) == IF IsNone(value) THEN S_NoneText ELSE Get(value)

\* the display names of the region choices; the codes AD, DU and SH stand for
\* their emirates
EMIRATE_CHOICES ==
    << << S_AbuDhabi, S_AbuDhabi >>, << S_Dubai, S_Dubai >>, << S_Sharjah, S_Sharjah >>,
       << S_Ajman, S_Ajman >>, << S_UmmAlQuwain, S_UmmAlQuwain >>,
       << S_RasAlKhaimah, S_RasAlKhaimah >>, << S_Fujairah, S_Fujairah >>,
       << S_AD, S_AbuDhabi >>, << S_DU, S_Dubai >>, << S_SH, S_Sharjah >> >>

\* Model.get_emirate_display(): the display name of the stored value, the
\* value itself when it is not among the choices, None for NULL
get_emirate_display(emirate) ==
    IF IsNone(emirate) THEN None
    ELSE Some(DictGet(EMIRATE_CHOICES, Get(emirate), Get(emirate)))

(***************************************************************************)
(* Fatoora TLV QR generator                                                *)
(***************************************************************************)
MaxByte == 255

\* variant: the length byte counts characters, not encoded bytes
to_tlv_chars(tag, value) ==
    LET value_bytes == Utf8(value)
    IN  IF Len(value) > MaxByte
        THEN [ok |-> FALSE, exc |-> "ValueError"]
        ELSE [ok |-> TRUE, bytes |-> << tag, Len(value) >> \o value_bytes]

\* variant: a length that does not fit a byte wraps around modulo 256
to_tlv_wrap(tag, value) ==
    LET value_bytes == Utf8(value)
    IN  [ok |-> TRUE,
         bytes |-> << tag, Len(value_bytes) % (MaxByte + 1) >> \o value_bytes]

\* bytes([tag, len(value_bytes)]) raises ValueError when the length does
\* not fit a byte
to_tlv(tag, value) ==
    LET value_bytes == Utf8(value)
    IN  IF Len(value_bytes) > MaxByte
        THEN [ok |-> FALSE, exc |-> "ValueError"]
        ELSE [ok |-> TRUE, bytes |-> << tag, Len(value_bytes) >> \o value_bytes]

\* now: the text of datetime.utcnow().isoformat() at the time of the call
TlvPayload(seller, trn, issue_date, total, vat) ==
    IF seller.ok /\ trn.ok /\ issue_date.ok /\ total.ok /\ vat.ok
    THEN [ok |-> TRUE,
          text |-> b64encode(seller.bytes \o trn.bytes \o issue_date.bytes
                             \o total.bytes \o vat.bytes)]
    ELSE [ok |-> FALSE, exc |-> "ValueError"]

generate_fatoora_qr(invoice, now) ==
    TlvPayload(to_tlv(1, Get(Or(invoice.company.name, Some(<< >>)))),
               to_tlv(2, Get(Or(invoice.company.tax_registration_number,
                                Some(<< >>)))),
               to_tlv(3, IF ~IsNone(invoice.issue_date)
                         THEN IsoDate(Get(invoice.issue_date))
                         ELSE now),
               to_tlv(4, Fmt2(DecToCents(DAdd(invoice.total_amount,
                                              invoice.total_vat_amount)))),
               to_tlv(5, Fmt2(DecToCents(invoice.total_vat_amount))))

(***************************************************************************)
(* Bank details                                                            *)
(***************************************************************************)
BankKeys == {"bank_name", "account_number", "iban"}
FallbackBank ==
    [bank_name |-> "Emirates NBD", account_number |-> "1234 5678 9012",
     iban |-> "AE00 1234 5678 9012"]

\* getattr(obj, name, default): obj is a record, the attribute may not exist
GetAttr(obj, name, default) == IF name \in DOMAIN obj THEN obj[name] ELSE default

\* QuerySet.filter(is_default=True).first()
FirstDefault(banks) ==
    IF \E i \in 1..Len(banks) : banks[i].is_default
    THEN Some(banks[CHOOSE i \in 1..Len(banks) :
                      /\ banks[i].is_default
                      /\ \A j \in 1..(i - 1) : ~banks[j].is_default])
    ELSE None

\* invoice.bank_details is None or a JSON value [is_dict, d]; d is the dict
\* (a function on a subset of BankKeys), empty for a non-dict value
BankOverrideTruthy(o) == ~IsNone(o) /\ (~Get(o).is_dict \/ DOMAIN Get(o).d # {})

\* variant: the company's default bank is consulted before the invoice's own
get_bank_details_company_first(invoice) ==
    LET default_bank ==
            IF "bank_details" \in DOMAIN invoice.company
            THEN FirstDefault(invoice.company.bank_details)
            ELSE None
    IN  IF ~IsNone(default_bank)
        THEN [k \in BankKeys |-> Get(default_bank)[k]]
        ELSE IF BankOverrideTruthy(invoice.bank_details)
                /\ Get(invoice.bank_details).is_dict
        THEN LET d == Get(invoice.bank_details).d
             IN  [k \in BankKeys |-> IF k \in DOMAIN d THEN d[k] ELSE FallbackBank[k]]
        ELSE [k \in BankKeys |-> GetAttr(invoice.company, k, FallbackBank[k])]

get_bank_details_for_invoice(invoice) ==
    IF BankOverrideTruthy(invoice.bank_details) /\ Get(invoice.bank_details).is_dict
    THEN LET d == Get(invoice.bank_details).d
         IN  [k \in BankKeys |-> IF k \in DOMAIN d THEN d[k] ELSE FallbackBank[k]]
    ELSE LET default_bank ==
                 IF "bank_details" \in DOMAIN invoice.company
                 THEN FirstDefault(invoice.company.bank_details)
                 ELSE None
         IN  IF ~IsNone(default_bank)
             THEN [k \in BankKeys |-> Get(default_bank)[k]]
             ELSE [k \in BankKeys |-> GetAttr(invoice.company, k, FallbackBank[k])]

(***************************************************************************)
(* Line amounts                                                            *)
(***************************************************************************)
\* float(getattr(item, name, 0) or 0)
ItemFloat(item, name) ==
    IF IsNone(item[name]) THEN FZero ELSE FloatOfDec(Get(item[name]))

F100 == FloatRound(BigFromInt(100), 0)

\* f"{x:.2f}", f"AED {x:,.2f}", f"{x:.0f}%"
FloatFmt2(x) == Fmt2(FloatToCents(x))
FloatFmtAED(x) == AED \o FmtComma2(FloatToCents(x))
FloatFmtPct(x) == IntStr(FloatToUnits(x, 1)) \o << 37 >>

\* The statements that open the body of every loop over the line items
\* (generate_invoice_pdf, the two loops of generate_invoice_xml and
\* generate_invoice_json), one operator per assigned local:
\*     qty = float(getattr(item, "quantity", 0) or 0)
\*     unit_price = float(getattr(item, "unit_price", 0.0) or 0.0)
\*     vat_rate = float(getattr(item, "vat_rate", 0.0) or 0.0)
\*     net = qty * unit_price
\*     vat_amount = net * vat_rate
LineVat(item, qty, unit_price, vat_rate, net) ==
    [item |-> item, qty |-> qty, unit_price |-> unit_price, vat_rate |-> vat_rate,
     net |-> net, vat_amount |-> FMul(net, vat_rate)]

LineNet(item, qty, unit_price, vat_rate) ==
    LineVat(item, qty, unit_price, vat_rate, FMul(qty, unit_price))

LineLocals(item) ==
    LineNet(item, ItemFloat(item, "quantity"), ItemFloat(item, "unit_price"),
            ItemFloat(item, "vat_rate"))

(***************************************************************************)
(* generate_invoice_pdf                                                    *)
(***************************************************************************)
\* the table row of a line; v holds the locals of the loop body
PdfRow(v) ==
    [description |-> v.item.description,
     unit_price  |-> FloatFmtAED(v.unit_price),
     qty         |-> FloatFmt2(v.qty),
     vat_pct     |-> FloatFmtPct(FMul(v.vat_rate, F100)),
     vat_amount  |-> FloatFmtAED(v.vat_amount),
     total       |-> FloatFmtAED(FAdd(v.net, v.vat_amount))]

\* the loop over line_items: rows of the table and the running sums
RECURSIVE PdfLines(_, _, _, _, _)
PdfLine(line_items, i, subtotal, total_vat, data, v) ==
    PdfLines(line_items, i + 1, FAdd(subtotal, v.net), FAdd(total_vat, v.vat_amount),
             Append(data, PdfRow(v)))

PdfLines(line_items, i, subtotal, total_vat, data) ==
    IF i > Len(line_items)
    THEN [subtotal |-> subtotal, total_vat |-> total_vat, data |-> data]
    ELSE PdfLine(line_items, i, subtotal, total_vat, data, LineLocals(line_items[i]))

\* variant: the grand total leaves the VAT out
PdfTotalsNet(lines) ==
    [subtotal    |-> FloatFmtAED(lines.subtotal),
     vat_total   |-> FloatFmtAED(lines.total_vat),
     grand_total |-> FloatFmtAED(lines.subtotal)]

\* the totals block: grand_total = subtotal + total_vat, each printed as
\* f"AED {x:,.2f}"
PdfTotals(lines) ==
    [subtotal    |-> FloatFmtAED(lines.subtotal),
     vat_total   |-> FloatFmtAED(lines.total_vat),
     grand_total |-> FloatFmtAED(FAdd(lines.subtotal, lines.total_vat))]

\* header, left: the issuer's name, TRN, emirate and phone as the f-strings
\* print them (the text after the label)
PdfCompanyBlock(invoice) ==
    [name    |-> FStr(invoice.company.name),
     trn     |-> FStr(invoice.company.tax_registration_number),
     emirate |-> FStr(get_emirate_display(invoice.company.emirate)),
     phone   |-> Get(Or(invoice.company.phone, Some(<< >>)))]

\* BILL TO: client_emirate = invoice.get_emirate_display()
PdfBillTo(invoice) ==
    [name    |-> FStr(invoice.client.name),
     trn     |-> Get(Or(invoice.client.trn, Some(<< >>))),
     emirate |-> FStr(get_emirate_display(invoice.emirate)),
     phone   |-> FStr(GetAttr(invoice.client, "phone", Some(<< >>))),
     email   |-> Get(Or(invoice.client.email, Some(<< >>)))]

\* the document once the header is through: generate_fatoora_qr is called
\* outside any try, so its exception leaves generate_invoice_pdf
PdfDocument(invoice, bank_details, lines, qr_tlv_b64) ==
    IF ~qr_tlv_b64.ok
    THEN [ok |-> FALSE, exc |-> qr_tlv_b64.exc]
    ELSE [ok           |-> TRUE,
          company      |-> PdfCompanyBlock(invoice),
          invoice_no   |-> invoice.invoice_number,
          place_of_supply |-> FStr(get_emirate_display(invoice.emirate)),
          bill_to      |-> PdfBillTo(invoice),
          bank_details |-> bank_details,
          data         |-> lines.data,
          totals       |-> PdfTotals(lines),
          qr           |-> b64decode(qr_tlv_b64.text),
          uuid         |-> invoice.uuid]

\* invoice.issue_date.strftime(...) in the header raises AttributeError on a
\* missing issue date
generate_invoice_pdf(invoice, line_items, now) ==
    IF IsNone(invoice.issue_date)
    THEN [ok |-> FALSE, exc |-> "AttributeError"]
    ELSE PdfDocument(invoice, get_bank_details_for_invoice(invoice),
                     PdfLines(line_items, 1, FZero, FZero, << >>),
                     generate_fatoora_qr(invoice, now))

(***************************************************************************)
(* generate_invoice_xml                                                    *)
(***************************************************************************)
\* first loop: line_extension_amount and total_vat
RECURSIVE XmlSums(_, _, _, _)
XmlSum(line_items, i, line_extension_amount, total_vat, v) ==
    XmlSums(line_items, i + 1, FAdd(line_extension_amount, v.net),
            FAdd(total_vat, v.vat_amount))

XmlSums(line_items, i, line_extension_amount, total_vat) ==
    IF i > Len(line_items)
    THEN [line_extension_amount |-> line_extension_amount, total_vat |-> total_vat]
    ELSE XmlSum(line_items, i, line_extension_amount, total_vat,
                LineLocals(line_items[i]))

\* variant: the lines are numbered from 0
XmlLineFromZero(v, i) ==
    [ID                  |-> IntStr(i - 1),
     InvoicedQuantity    |-> FloatFmt2(v.qty),
     LineExtensionAmount |-> FloatFmt2(v.net),
     Description         |-> v.item.description,
     PriceAmount         |-> FloatFmt2(v.unit_price),
     TaxTotal            |->
         [TaxAmount   |-> FloatFmt2(v.vat_amount),
          TaxSubtotal |-> [TaxableAmount |-> FloatFmt2(v.net),
                           TaxAmount     |-> FloatFmt2(v.vat_amount),
                           Percent       |-> FloatFmt2(FMul(v.vat_rate, F100))]]]

\* second loop: the i-th InvoiceLine element; v holds the locals of the body
XmlLine(v, i) ==
    [ID                  |-> IntStr(i),
     InvoicedQuantity    |-> FloatFmt2(v.qty),
     LineExtensionAmount |-> FloatFmt2(v.net),
     Description         |-> v.item.description,
     PriceAmount         |-> FloatFmt2(v.unit_price),
     TaxTotal            |->
         [TaxAmount   |-> FloatFmt2(v.vat_amount),
          TaxSubtotal |-> [TaxableAmount |-> FloatFmt2(v.net),
                           TaxAmount     |-> FloatFmt2(v.vat_amount),
                           Percent       |-> FloatFmt2(FMul(v.vat_rate, F100))]]]

XmlInvoiceLine(item, i) == XmlLine(LineLocals(item), i)

\* PostalAddress of a party: CityName and CountrySubentityCode come from the
\* same emirate value
XmlPostalAddress(address, emirate) ==
    [StreetName           |-> safe_text(address),
     CityName             |-> safe_text(emirate),
     CountrySubentityCode |-> get_emirate_code(emirate),
     Country              |-> "AE"]

XmlContact(party) ==
    [ElectronicMail |-> IF Truthy(party.email) THEN party.email ELSE None,
     Telephone      |-> IF Truthy(party.phone) THEN party.phone ELSE None]

\* variant: the taxable amount includes the VAT
XmlTotalsTaxableGross(sums) ==
    [line_extension_amount |-> sums.line_extension_amount,
     total_vat             |-> sums.total_vat,
     taxable_amount        |-> FAdd(sums.line_extension_amount, sums.total_vat),
     tax_inclusive_amount  |-> FAdd(sums.line_extension_amount, sums.total_vat)]

\* taxable_amount = line_extension_amount;
\* tax_inclusive_amount = taxable_amount + total_vat
XmlTotals(sums) ==
    [line_extension_amount |-> sums.line_extension_amount,
     total_vat             |-> sums.total_vat,
     taxable_amount        |-> sums.line_extension_amount,
     tax_inclusive_amount  |-> FAdd(sums.line_extension_amount, sums.total_vat)]

\* variant: the amounts are copied from the invoice's cached totals
XmlAmountsCached(invoice, line_items) ==
    [line_extension_amount |-> FloatOfDec(invoice.total_amount),
     total_vat             |-> FloatOfDec(invoice.total_vat_amount),
     taxable_amount        |-> FloatOfDec(invoice.total_amount),
     tax_inclusive_amount  |-> FloatOfDec(DAdd(invoice.total_amount,
                                               invoice.total_vat_amount))]

\* the monetary amounts of the document: calculated from the line items, not
\* read from the invoice's total_amount / total_vat_amount
XmlAmounts(invoice, line_items) == XmlTotals(XmlSums(line_items, 1, FZero, FZero))

\* variant: the first line's vat_rate is read without a default, which fails
\* on an invoice that has no line
XmlPercentNoDefault(line_items) ==
    IF Len(line_items) = 0
    THEN [ok |-> FALSE, exc |-> "AttributeError"]
    ELSE IF IsNone(line_items[1].vat_rate)
    THEN [ok |-> FALSE, exc |-> "TypeError"]
    ELSE [ok |-> TRUE, kind |-> "Decimal",
          v |-> DMul(Get(line_items[1].vat_rate), Dec(100, 0))]

\* TaxCategory/Percent of the invoice-level TaxSubtotal:
\* getattr(line_items.first(), "vat_rate", 0.05) * 100 is the first line's
\* Decimal vat_rate * 100, the float 0.05 * 100 when there is no line, and a
\* TypeError when the first line's vat_rate is None
XmlPercent(line_items) ==
    IF Len(line_items) = 0
    THEN [ok |-> TRUE, kind |-> "float", v |-> FMul(FloatOfDec(Dec(5, 2)), F100)]
    ELSE IF IsNone(line_items[1].vat_rate)
    THEN [ok |-> FALSE, exc |-> "TypeError"]
    ELSE [ok |-> TRUE, kind |-> "Decimal",
          v |-> DMul(Get(line_items[1].vat_rate), Dec(100, 0))]

\* company_emirate = company.emirate or company.city or "Dubai"
XmlCompanyEmirate(invoice) ==
    Or(Or(invoice.company.emirate, GetAttr(invoice.company, "city", None)),
       Some(S_Dubai))

\* variant: the client's own region comes before the invoice's
XmlCustomerEmirateClientFirst(invoice) ==
    Or(Or(Or(Or(GetAttr(invoice.client, "emirate", None),
                GetAttr(invoice.client, "city", None)),
             invoice.emirate),
          XmlCompanyEmirate(invoice)),
       Some(S_Dubai))

\* customer_emirate = invoice.emirate or client.emirate or client.city
\*                    or company_emirate or "Dubai"
XmlCustomerEmirate(invoice) ==
    Or(Or(Or(Or(invoice.emirate, GetAttr(invoice.client, "emirate", None)),
             GetAttr(invoice.client, "city", None)),
          XmlCompanyEmirate(invoice)),
       Some(S_Dubai))

\* variant: the element is created before the image is built, so a failure
\* leaves it behind without its attachment
XmlQrReferencePartial(tlv_b64, qr_ok) ==
    IF tlv_b64.ok /\ qr_ok
    THEN Some([ID |-> "QR", png_of |-> b64decode(tlv_b64.text)])
    ELSE Some([ID |-> "QR"])

\* the try block: the TLV, its base64 decoding, the QR image and its PNG are
\* built first and the AdditionalDocumentReference is created after them;
\* an exception of any of these steps leaves no element (except: pass).
\* png_of: the bytes the embedded PNG is the QR image of
XmlQrReference(tlv_b64, qr_ok) ==
    IF tlv_b64.ok /\ qr_ok
    THEN Some([ID |-> "QR", png_of |-> b64decode(tlv_b64.text)])
    ELSE None

\* the document from the values its statements compute; an exception of the
\* Percent expression leaves generate_invoice_xml; the QR embedding sits in a
\* try / except that drops the AdditionalDocumentReference
XmlDocument(invoice, line_items, amounts, percent, tlv_b64, qr_ok) ==
    IF ~percent.ok
    THEN [ok |-> FALSE, exc |-> percent.exc]
    ELSE
    [ok   |-> TRUE,
     ID   |-> invoice.invoice_number,
     UUID |-> invoice.uuid,
     IssueDate |-> IF IsNone(invoice.issue_date) THEN None
                   ELSE Some(IsoDate(Get(invoice.issue_date))),
     InvoiceTypeCode      |-> "380",
     DocumentCurrencyCode |-> "AED",
     AccountingSupplierParty |->
         [ID            |-> safe_text(invoice.company.tax_registration_number),
          Name          |-> safe_text(invoice.company.name),
          PostalAddress |-> XmlPostalAddress(invoice.company.address,
                                             XmlCompanyEmirate(invoice)),
          Contact       |-> XmlContact(invoice.company)],
     AccountingCustomerParty |->
         [ID            |-> safe_text(invoice.client.trn),
          Name          |-> safe_text(invoice.client.name),
          PostalAddress |-> XmlPostalAddress(invoice.client.address,
                                             XmlCustomerEmirate(invoice)),
          Contact       |-> XmlContact(invoice.client)],
     TaxTotal |->
         [TaxAmount   |-> FloatFmt2(amounts.total_vat),
          TaxSubtotal |-> [TaxableAmount |-> FloatFmt2(amounts.taxable_amount),
                           TaxAmount     |-> FloatFmt2(amounts.total_vat),
                           Percent       |-> percent]],
     InvoiceLine |-> [i \in 1..Len(line_items) |-> XmlInvoiceLine(line_items[i], i)],
     LegalMonetaryTotal |->
         [LineExtensionAmount |-> FloatFmt2(amounts.line_extension_amount),
          TaxExclusiveAmount  |-> FloatFmt2(amounts.taxable_amount),
          TaxInclusiveAmount  |-> FloatFmt2(amounts.tax_inclusive_amount),
          PayableAmount       |-> FloatFmt2(amounts.tax_inclusive_amount)],
     AdditionalDocumentReference |-> XmlQrReference(tlv_b64, qr_ok)]

\* qr_ok: the qrcode / PNG steps of the embedding succeed
generate_invoice_xml(invoice, line_items, now, qr_ok) ==
    XmlDocument(invoice, line_items, XmlAmounts(invoice, line_items),
                XmlPercent(line_items), generate_fatoora_qr(invoice, now), qr_ok)

(***************************************************************************)
(* generate_invoice_json                                                   *)
(***************************************************************************)
JsonLine(v) ==
    [Description |-> v.item.description, Quantity |-> v.qty,
     UnitPrice |-> v.unit_price, VATRate |-> v.vat_rate,
     VATAmount |-> v.vat_amount, Total |-> FAdd(v.net, v.vat_amount)]

JsonLineItem(item) == JsonLine(LineLocals(item))

\* "x or 0.0" on a Decimal: Decimal zero is falsy and becomes the float 0.0
DecOrFloat(x) ==
    IF DIsZero(x) THEN [kind |-> "float", v |-> FZero] ELSE [kind |-> "Decimal", v |-> x]

\* the floats are kept as doubles: json.dumps prints each with repr, which
\* is one-to-one on doubles.  Decimal + float raises TypeError.
JsonGrandTotal(a, b) ==
    IF a.kind # b.kind
    THEN [ok |-> FALSE, exc |-> "TypeError"]
    ELSE [ok |-> TRUE,
          v  |-> IF a.kind = "float" THEN FAdd(a.v, b.v) ELSE FloatOfDec(DAdd(a.v, b.v))]

\* float(x or 0.0) is float(x) for a Decimal x, zero or not
JsonDocument(invoice, line_items, grand_total) ==
    IF ~grand_total.ok
    THEN [ok |-> FALSE, exc |-> grand_total.exc]
    ELSE [ok        |-> TRUE,
          LineItems |-> [i \in 1..Len(line_items) |-> JsonLineItem(line_items[i])],
          Totals    |-> [Subtotal   |-> FloatOfDec(invoice.total_amount),
                         VATAmount  |-> FloatOfDec(invoice.total_vat_amount),
                         GrandTotal |-> grand_total.v]]

generate_invoice_json(invoice, line_items) ==
    JsonDocument(invoice, line_items,
                 JsonGrandTotal(DecOrFloat(invoice.total_amount),
                                DecOrFloat(invoice.total_vat_amount)))

(***************************************************************************)
(* The invoice aggregate and the documents generated from it               *)
(***************************************************************************)
VARIABLES
    invoice,     \* header, company, client, cached total_amount / total_vat_amount
    line_items,  \* invoice.line_items.all(), in stored order
    qr_out,      \* result of the last generate_fatoora_qr, None if none yet
    pdf_out,     \* result of the last generate_invoice_pdf
    xml_out,     \* result of the last generate_invoice_xml
    json_out,    \* result of the last generate_invoice_json
    bank_out,    \* result of the last get_bank_details_for_invoice
    invoices,    \* the persisted invoices the number allocator counts
    creating,    \* the invoice creations in progress, by request
    partners,    \* Partner rows: the three stored balance figures, by partner
    commissions, \* PartnerCommission rows, as a bag: ids and dates left out
    payouts,     \* PayoutRequest rows; a row's id is its position
    payout_transactions, \* PayoutTransaction rows, in order of creation
    notifications,       \* Notification rows, as a bag: ids and timestamps left out
    response,    \* the response of the last payout endpoint call, None if none
    approving,   \* the admin_approve_payout calls in progress, by worker
    profiles,    \* UserProfile rows of the client users, by user
    partner_clients      \* PartnerClient rows, in order of creation

vars == << invoice, line_items, qr_out, pdf_out, xml_out, json_out, bank_out,
           invoices, creating,
           partners, commissions, payouts, payout_transactions, notifications,
           response, approving, profiles, partner_clients >>

\* the invoice being rendered and its documents; the rows of the allocator
documents == << invoice, line_items, qr_out, pdf_out, xml_out, json_out, bank_out >>
numbering == << invoices, creating >>
partner_data == << partners, commissions, payouts, payout_transactions, notifications,
                   response, approving, profiles, partner_clients >>
outside_documents == << numbering, partner_data >>
outside_numbering == << documents, partner_data >>
outside_partner_data == << documents, numbering >>

MaxLines == 2

\* datetime.utcnow().isoformat() as read by a call
UtcNow == {S_Now1, S_Now2}

\* the clock is read only for an invoice without issue date; otherwise one
\* value stands for the reading nobody makes
ClockReadings(inv) == IF IsNone(inv.issue_date) THEN UtcNow ELSE {S_Now1}

Date1 == [y |-> 2026, m |-> 1, d |-> 15]

Item(desc, qty, price, rate) ==
    [description |-> desc, quantity |-> qty, unit_price |-> price, vat_rate |-> rate]

\* line items the operations draw from: 1.00 x 0.30 at 5%, 1.00 x 0.10 at 5%,
\* a null quantity, a null VAT rate
Items ==
    { Item("a", Some(Dec(100, 2)), Some(Dec(30, 2)), Some(Dec(5, 2))),
      Item("b", Some(Dec(100, 2)), Some(Dec(10, 2)), Some(Dec(5, 2))),
      Item("c", None, Some(Dec(125000, 2)), Some(Dec(5, 2))),
      Item("d", Some(Dec(200, 2)), Some(Dec(125000, 2)), None) }

BankRow(name, is_default) ==
    [bank_name |-> name, account_number |-> "ACC-" \o name, iban |-> "AE-" \o name,
     is_default |-> is_default]

DefaultCompany ==
    [name |-> Some(S_Acme), tax_registration_number |-> Some(S_TRN),
     emirate |-> Some(S_Dubai), address |-> Some(S_Dubai), email |-> None,
     phone |-> None, bank_details |-> << >>]

DefaultClient ==
    [name |-> Some(S_Foo), trn |-> None, address |-> None, email |-> None,
     phone |-> None]

DefaultInvoice ==
    [company |-> DefaultCompany, client |-> DefaultClient,
     invoice_number |-> "INV-0001-0001", uuid |-> "uuid-1",
     issue_date |-> Some(Date1), emirate |-> Some(S_Dubai), bank_details |-> None,
     total_amount |-> DZero, total_vat_amount |-> DZero]

WithoutAttr(r, a) == [k \in (DOMAIN r) \ {a} |-> r[k]]

(***************************************************************************)
(* The invoices application keeps the cached totals: after every change of *)
(* the line items total_amount is the exact sum of quantity * unit_price   *)
(* and total_vat_amount the exact sum of net * vat_rate, and the PDF and   *)
(* XML documents are generated again.                                      *)
(***************************************************************************)
DecOrZero(o) == IF IsNone(o) THEN DZero ELSE Get(o)

RECURSIVE SumNet(_)
SumNet(items) ==
    IF Len(items) = 0 THEN DZero
    ELSE DAdd(DMul(DecOrZero(items[1].quantity), DecOrZero(items[1].unit_price)),
              SumNet(Tail(items)))

RECURSIVE SumVat(_)
SumVat(items) ==
    IF Len(items) = 0 THEN DZero
    ELSE DAdd(DMul(DMul(DecOrZero(items[1].quantity), DecOrZero(items[1].unit_price)),
                   DecOrZero(items[1].vat_rate)),
              SumVat(Tail(items)))

update_totals(inv, items) ==
    [inv EXCEPT !.total_amount = SumNet(items), !.total_vat_amount = SumVat(items)]

\* what every change of the line items does after the change itself
SaveLineItems(items) ==
    /\ line_items' = items
    /\ invoice' = update_totals(invoice, items)
    /\ \E now \in ClockReadings(invoice), qr_ok \in BOOLEAN :
          /\ pdf_out' = Some(generate_invoice_pdf(invoice', items, now))
          /\ xml_out' = Some(generate_invoice_xml(invoice', items, now, qr_ok))
    /\ qr_out' = None
    /\ json_out' = None
    /\ UNCHANGED bank_out
    /\ UNCHANGED outside_documents

AddLineItem ==
    /\ Len(line_items) < MaxLines
    /\ \E item \in Items : SaveLineItems(Append(line_items, item))

EditLineItem ==
    \E i \in 1..Len(line_items), item \in Items :
        /\ item # line_items[i]
        /\ SaveLineItems([line_items EXCEPT ![i] = item])

RemoveLineItem ==
    \E i \in 1..Len(line_items) :
        SaveLineItems(SubSeq(line_items, 1, i - 1)
                      \o SubSeq(line_items, i + 1, Len(line_items)))

(***************************************************************************)
(* The generators, called on the invoice as it stands                      *)
(***************************************************************************)
GenerateQR ==
    /\ \E now \in ClockReadings(invoice) : qr_out' = Some(generate_fatoora_qr(invoice, now))
    /\ UNCHANGED << invoice, line_items, pdf_out, xml_out, json_out, bank_out >>
    /\ UNCHANGED outside_documents

GeneratePDF ==
    /\ \E now \in ClockReadings(invoice) : pdf_out' = Some(generate_invoice_pdf(invoice, line_items, now))
    /\ UNCHANGED << invoice, line_items, qr_out, xml_out, json_out, bank_out >>
    /\ UNCHANGED outside_documents

GenerateXML ==
    /\ \E now \in ClockReadings(invoice), qr_ok \in BOOLEAN :
          xml_out' = Some(generate_invoice_xml(invoice, line_items, now, qr_ok))
    /\ UNCHANGED << invoice, line_items, qr_out, pdf_out, json_out, bank_out >>
    /\ UNCHANGED outside_documents

GenerateJSON ==
    /\ json_out' = Some(generate_invoice_json(invoice, line_items))
    /\ UNCHANGED << invoice, line_items, qr_out, pdf_out, xml_out, bank_out >>
    /\ UNCHANGED outside_documents

GetBankDetails ==
    /\ bank_out' = Some(get_bank_details_for_invoice(invoice))
    /\ UNCHANGED << invoice, line_items, qr_out, pdf_out, xml_out, json_out >>
    /\ UNCHANGED outside_documents

NoOutput ==
    /\ qr_out = None
    /\ pdf_out = None
    /\ xml_out = None
    /\ json_out = None
    /\ bank_out = None

\* no partner, payout or signup row is part of the run
NoPartnerData ==
    /\ partners = << >>
    /\ commissions = << >>
    /\ payouts = << >>
    /\ payout_transactions = << >>
    /\ notifications = << >>
    /\ response = None
    /\ approving = << >>
    /\ profiles = << >>
    /\ partner_clients = << >>

(***************************************************************************)
(* Invoice number allocator: the first save of an invoice without a number *)
(* counts the tenant's invoices, formats the number from the count and     *)
(* stores the row.  The count and the insert are separate steps with no    *)
(* lock on the tenant's invoices, so the steps of several requests         *)
(* interleave.                                                             *)
(***************************************************************************)
Tenants == {1, 2}
MaxRequests == 3
Requests == 1..MaxRequests

S_INV == << 73, 78, 86, 45 >>  \* "INV-"

\* the UUIDs uuid4() can give the invoices: each invoice gets its own; two of
\* them differ only after their first 8 hex characters
Uuids ==
    { << 51, 102, 50, 97, 57, 99, 49, 101, 45, 55, 55, 98, 48, 45, 52, 100, 53, 50, 45, 57, 97, 54, 101, 45, 48, 99, 49, 100, 50, 101, 51, 102, 52, 97, 53, 98 >>,
      << 51, 102, 50, 97, 57, 99, 49, 101, 45, 48, 101, 49, 49, 45, 52, 99, 56, 97, 45, 98, 55, 100, 51, 45, 53, 97, 54, 98, 55, 99, 56, 100, 57, 101, 48, 102 >>,
      << 98, 48, 52, 100, 49, 55, 97, 97, 45, 57, 49, 99, 50, 45, 52, 101, 54, 102, 45, 56, 97, 51, 98, 45, 49, 102, 50, 101, 51, 100, 52, 99, 53, 98, 54, 97 >>,
      << 48, 99, 57, 101, 53, 100, 51, 98, 45, 50, 97, 52, 102, 45, 52, 98, 49, 99, 45, 57, 100, 56, 101, 45, 55, 102, 54, 97, 53, 98, 52, 99, 51, 100, 50, 101 >> }

\* {n:04d}: at least four digits, zero padded
Fmt04d(n) == IF n < 10000 THEN Pad4(n) ELSE IntStr(n)

\* variant: the sequence is the count itself, not the count plus one
PrimaryNumberFromCount(tenant_id, count) ==
    S_INV \o Fmt04d(tenant_id) \o << 45 >> \o Fmt04d(count)

\* INV-{tenant_id:04d}-{next_sequence:04d}, next_sequence = count + 1
PrimaryNumber(tenant_id, count) ==
    S_INV \o Fmt04d(tenant_id) \o << 45 >> \o Fmt04d(count + 1)

\* INV-{first 8 hex chars of the UUID, uppercased}
FallbackNumber(uuid) == S_INV \o Upper(Prefix(uuid, 8))

\* count of existing invoices for this tenant
CountInvoices(tenant_id) ==
    Cardinality({ i \in invoices : i.company = Some(tenant_id) })

Idle == [pc |-> "idle", company |-> None, count |-> 0, uuid |-> << >>]

\* the UUIDs given out so far
UsedUuids == { creating[q].uuid : q \in { x \in Requests : creating[x].pc # "idle" } }

NoCreation ==
    /\ invoices = {}
    /\ creating = [r \in Requests |-> Idle]

InFlight(r) == creating[r].pc \in {"saving", "counted", "fallback"}

\* a request starts the first save of an invoice that has no number; the
\* invoice has a tenant or, by a missing company, none
BeginCreate ==
    /\ \E r \in Requests, company \in {None} \cup { Some(t) : t \in Tenants },
          uuid \in Uuids \ UsedUuids :
          /\ creating[r].pc = "idle"
          /\ creating' = [creating EXCEPT ![r] = [pc |-> "saving", company |-> company,
                                                  count |-> 0, uuid |-> uuid]]
    /\ UNCHANGED invoices
    /\ UNCHANGED outside_numbering

\* the same, when requests are handled one at a time
BeginCreateAlone ==
    /\ \A q \in Requests : ~InFlight(q)
    /\ BeginCreate

\* the primary path reads the count; it fails when the tenant is missing
ReadCount ==
    /\ \E r \in Requests :
          /\ creating[r].pc = "saving"
          /\ creating' =
                [creating EXCEPT ![r] =
                    IF IsNone(creating[r].company)
                    THEN [@ EXCEPT !.pc = "fallback"]
                    ELSE [@ EXCEPT !.pc = "counted",
                                   !.count = CountInvoices(Get(creating[r].company))]]
    /\ UNCHANGED invoices
    /\ UNCHANGED outside_numbering

\* the number is formatted from the count read before and the row is stored
PersistInvoice ==
    /\ \E r \in Requests :
          /\ creating[r].pc \in {"counted", "fallback"}
          /\ invoices' = invoices \cup
                { [id |-> r, company |-> creating[r].company,
                   uuid |-> creating[r].uuid,
                   invoice_number |->
                       IF creating[r].pc = "counted"
                       THEN PrimaryNumber(Get(creating[r].company), creating[r].count)
                       ELSE FallbackNumber(creating[r].uuid)] }
          /\ creating' = [creating EXCEPT ![r].pc = "done"]
    /\ UNCHANGED outside_numbering

\* an invoice is deleted (the admin's delete view)
DeleteInvoice ==
    /\ \E i \in invoices : invoices' = invoices \ {i}
    /\ UNCHANGED creating
    /\ UNCHANGED outside_numbering

\* the same, when requests are handled one at a time
DeleteInvoiceAlone ==
    /\ \A q \in Requests : ~InFlight(q)
    /\ DeleteInvoice

InitAlloc ==
    /\ invoice = DefaultInvoice
    /\ line_items = << >>
    /\ NoOutput
    /\ NoCreation
    /\ NoPartnerData

\* SpecAlloc: creations whose steps interleave freely; no invoice is deleted
NextAlloc ==
    \/ BeginCreate
    \/ ReadCount
    \/ PersistInvoice

SpecAlloc == InitAlloc /\ [][NextAlloc]_vars

\* SpecAllocSerial: a creation starts only when no other is in progress, and
\* an invoice is deleted only between creations
NextAllocSerial ==
    \/ BeginCreateAlone
    \/ ReadCount
    \/ PersistInvoice
    \/ DeleteInvoiceAlone

SpecAllocSerial == InitAlloc /\ [][NextAllocSerial]_vars

(***************************************************************************)
(* Spec: an invoice whose line items are added, edited and removed         *)
(***************************************************************************)
Init ==
    /\ invoice = DefaultInvoice
    /\ line_items = << >>
    /\ NoOutput
    /\ NoCreation
    /\ NoPartnerData

Next ==
    \/ AddLineItem
    \/ EditLineItem
    \/ RemoveLineItem
    \/ GenerateQR
    \/ GeneratePDF
    \/ GenerateXML
    \/ GenerateJSON

Spec == Init /\ [][Next]_vars

(***************************************************************************)
(* SpecAdmin: the same invoice, whose total_amount and total_vat_amount    *)
(* are also editable fields of the admin change form (they are not among   *)
(* InvoiceAdmin.readonly_fields), so the cached totals can come to differ  *)
(* from the line items.                                                    *)
(***************************************************************************)
AdminTotals ==
    { [total_amount |-> Dec(999, 0), total_vat_amount |-> DZero],
      [total_amount |-> Dec(30, 2), total_vat_amount |-> Dec(5, 0)] }

AdminEditTotals ==
    /\ \E t \in AdminTotals :
          /\ << invoice.total_amount, invoice.total_vat_amount >>
                # << t.total_amount, t.total_vat_amount >>
          /\ invoice' = [invoice EXCEPT !.total_amount = t.total_amount,
                                        !.total_vat_amount = t.total_vat_amount]
    /\ qr_out' = None
    /\ json_out' = None
    /\ UNCHANGED << line_items, pdf_out, xml_out, bank_out >>
    /\ UNCHANGED outside_documents

NextAdmin ==
    \/ AddLineItem
    \/ EditLineItem
    \/ RemoveLineItem
    \/ AdminEditTotals
    \/ GenerateXML

SpecAdmin == Init /\ [][NextAdmin]_vars

(***************************************************************************)
(* SpecQR: generate_fatoora_qr applied to invoices whose seller name, TRN, *)
(* issue date and cached totals are drawn from small sets.                 *)
(***************************************************************************)
QRNames ==
    { None, Some(<< >>), Some(S_Acme), Some(S_Cafe), Some(LongName(MaxByte)),
      Some(LongName(MaxByte + 1)), Some(LongName(MaxByte - 1) \o << 233 >>) }

QRTotals ==
    { [total_amount |-> DZero, total_vat_amount |-> DZero],
      [total_amount |-> Dec(30, 2), total_vat_amount |-> Dec(15, 3)],
      [total_amount |-> Dec(10, 2), total_vat_amount |-> Dec(5, 3)],
      [total_amount |-> Dec(125000, 2), total_vat_amount |-> Dec(6250, 2)],
      [total_amount |-> Dec(250, 2), total_vat_amount |-> Dec(125, 3)] }

InitQR ==
    /\ \E name \in QRNames, trn \in {None, Some(S_TRN)},
          issue_date \in {None, Some(Date1)}, t \in QRTotals :
          invoice = [DefaultInvoice EXCEPT
                        !.company.name = name,
                        !.company.tax_registration_number = trn,
                        !.issue_date = issue_date,
                        !.total_amount = t.total_amount,
                        !.total_vat_amount = t.total_vat_amount]
    /\ line_items = << >>
    /\ NoOutput
    /\ NoCreation
    /\ NoPartnerData

NextQR == GenerateQR

SpecQR == InitQR /\ [][NextQR]_vars

(***************************************************************************)
(* SpecHeader: the generators applied to invoices whose region fields and  *)
(* bank details are drawn from small sets.                                 *)
(***************************************************************************)
EmirateInputs ==
    { None, Some(<< >>), Some(S_AbuDhabi), Some(S_Dubai), Some(S_Sharjah),
      Some(S_Ajman), Some(S_UmmAlQuwain), Some(S_RasAlKhaimah), Some(S_Fujairah),
      Some(S_AbuDhabiJoined), Some(S_Abu_Dhabi), Some(S_AD), Some(S_DU), Some(S_SH),
      Some(S_Foo), Some(S_DubaiLead), Some(<< 120 >>) }

InvoiceEmirates == { None, Some(S_Sharjah), Some(S_AD), Some(S_Foo) }

BankDict(keys) == [is_dict |-> TRUE, d |-> [k \in keys |-> "INV-" \o k]]

\* invoice.bank_details: NULL, {}, a full dict, a dict of the bank name only,
\* a JSON value that is not a dict
BankOverrides ==
    { None, Some(BankDict({})), Some(BankDict(BankKeys)),
      Some(BankDict({"bank_name"})), Some([is_dict |-> FALSE, d |-> << >>]) }

\* invoice.company.bank_details.all(): no row, a row that is not the default,
\* a default row after one that is not, two default rows
CompanyBanks ==
    { << >>, << BankRow("N1", FALSE) >>,
      << BankRow("N1", FALSE), BankRow("D2", TRUE) >>,
      << BankRow("D1", TRUE), BankRow("D2", TRUE) >> }

InitHeader ==
    /\ \/ \E ce \in EmirateInputs, ie \in InvoiceEmirates :
             invoice = [DefaultInvoice EXCEPT !.company.emirate = ce, !.emirate = ie]
       \/ \E o \in BankOverrides, banks \in CompanyBanks :
             invoice = [DefaultInvoice EXCEPT !.bank_details = o,
                                              !.company.bank_details = banks]
       \/ \E o \in BankOverrides :
             invoice = [DefaultInvoice EXCEPT
                           !.bank_details = o,
                           !.company = WithoutAttr(DefaultCompany, "bank_details")]
    /\ line_items = << >>
    /\ NoOutput
    /\ NoCreation
    /\ NoPartnerData

NextHeader ==
    \/ GetBankDetails
    \/ GeneratePDF
    \/ GenerateXML

SpecHeader == InitHeader /\ [][NextHeader]_vars

(***************************************************************************)
(* SpecParty: the generators applied to invoices whose optional fields     *)
(* (issue date, issuer and client TRN, address, email, phone), seller name *)
(* length and regions of invoice, client and issuer are drawn from small   *)
(* sets.                                                                   *)
(***************************************************************************)
S_Street == << 49, 32, 77, 97, 105, 110, 32, 83, 116 >>  \* "1 Main St"
S_Mail == << 97, 64, 98, 46, 97, 101 >>  \* "a@b.ae"
S_Phone == << 43, 57, 55, 49, 53, 48, 49 >>  \* "+971501"

\* the client's optional fields: all absent, all present, only the phone absent
PartyClients ==
    { DefaultClient,
      [DefaultClient EXCEPT !.trn = Some(S_TRN), !.address = Some(S_Street),
                            !.email = Some(S_Mail), !.phone = Some(S_Phone)],
      [DefaultClient EXCEPT !.trn = Some(S_TRN), !.address = Some(S_Street),
                            !.email = Some(S_Mail)] }

\* the issuer's optional fields: all absent but the name, all present, no name
PartyCompanies ==
    { [DefaultCompany EXCEPT !.tax_registration_number = None, !.address = None],
      [DefaultCompany EXCEPT !.email = Some(S_Mail), !.phone = Some(S_Phone)],
      [DefaultCompany EXCEPT !.name = Some(LongName(MaxByte + 1))] }

\* a client record with or without region attributes of its own
ClientRegions ==
    { DefaultClient,
      [k \in DOMAIN DefaultClient \cup {"emirate"} |->
          IF k = "emirate" THEN Some(S_Fujairah) ELSE DefaultClient[k]],
      [k \in DOMAIN DefaultClient \cup {"city"} |->
          IF k = "city" THEN Some(S_Ajman) ELSE DefaultClient[k]],
      [k \in DOMAIN DefaultClient \cup {"emirate", "city"} |->
          IF k = "emirate" THEN Some(S_Fujairah)
          ELSE IF k = "city" THEN Some(S_Ajman) ELSE DefaultClient[k]] }

PartyInvoiceEmirates == InvoiceEmirates \cup { Some(<< >>) }

PartyLines == { << >>, << Item("a", Some(Dec(100, 2)), Some(Dec(30, 2)), Some(Dec(5, 2))) >> }

InitParty ==
    /\ \/ \E company \in PartyCompanies, client \in PartyClients,
             issue_date \in {None, Some(Date1)}, items \in PartyLines :
             /\ line_items = items
             /\ invoice = update_totals([DefaultInvoice EXCEPT
                                            !.company = company,
                                            !.client = client,
                                            !.issue_date = issue_date], items)
       \/ \E ie \in PartyInvoiceEmirates, ce \in {None, Some(S_RasAlKhaimah)},
             client \in ClientRegions :
             /\ line_items = << >>
             /\ invoice = [DefaultInvoice EXCEPT !.emirate = ie,
                                                 !.company.emirate = ce,
                                                 !.client = client]
    /\ NoOutput
    /\ NoCreation
    /\ NoPartnerData

NextParty ==
    \/ GenerateQR
    \/ GeneratePDF
    \/ GenerateXML

SpecParty == InitParty /\ [][NextParty]_vars

(***************************************************************************)
(* Partner payouts: commissions, payout requests, payout transactions and  *)
(* notifications.  Amounts are Decimals with two places, held as           *)
(* hundredths of an AED.  Users 1 and 2 own partners 1 and 2, user 3 is    *)
(* staff and owns no partner.                                              *)
(***************************************************************************)
Partners == {1, 2}
Staff == {3}
Users == Partners \cup Staff

\* request.user.partner; None where the lookup raises Partner.DoesNotExist
PartnerOf(user) == IF user \in Partners THEN Some(user) ELSE None

\* partner.user
PartnerUser(p) == p

\* the check of request.user.is_staff, passed by every authenticated user
is_authenticated(user) == user \in Users

\* request.user.is_staff
is_staff(user) == user \in Staff

MaxPayouts == 2
MaxCommissions == 2
MaxResaves == 1
MinPayout == 5000
PayoutAmounts == {4000, 6000}
CommissionAmounts == {3000}
PayoutIds == 1..MaxPayouts

\* a Partner row as created: the three figures default to 0.00
NewPartner == [total_earnings |-> 0, available_balance |-> 0, total_paid_out |-> 0]

\* the rows of the database the partner endpoints and signal handlers use
Db ==
    [partners |-> partners, commissions |-> commissions, payouts |-> payouts,
     payout_transactions |-> payout_transactions, notifications |-> notifications,
     partner_clients |-> partner_clients]

StoreDb(d) ==
    /\ partners' = d.partners
    /\ commissions' = d.commissions
    /\ payouts' = d.payouts
    /\ payout_transactions' = d.payout_transactions
    /\ notifications' = d.notifications
    /\ partner_clients' = d.partner_clients

\* the rows of a bag other than the copies of r
Without(rows, r) == [x \in DOMAIN rows \ {r} |-> rows[x]]

\* Sum('amount') over a bag of rows
RECURSIVE SumAmount(_)
SumAmount(rows) ==
    IF DOMAIN rows = {} THEN 0
    ELSE (CHOOSE r \in DOMAIN rows : TRUE).amount * rows[CHOOSE r \in DOMAIN rows : TRUE]
            + SumAmount(Without(rows, CHOOSE r \in DOMAIN rows : TRUE))

\* queryset.aggregate(total=Sum('amount'))['total']: None over no row
Aggregate(rows) == IF DOMAIN rows = {} THEN None ELSE Some(SumAmount(rows))

\* the requests of partner p whose status is one of statuses, as a bag
PayoutsIn(d, p, statuses) ==
    SetToBag({ [id |-> i, amount |-> d.payouts[i].amount] :
                 i \in { j \in DOMAIN d.payouts :
                            d.payouts[j].partner = p /\ d.payouts[j].status \in statuses } })

\* total or Decimal('0.00')
OrZero(total) == IF IsNone(total) \/ total[1] = 0 THEN 0 ELSE total[1]

\* self.commissions.filter(status='PAID')
PaidCommissions(d, p) ==
    [c \in { x \in DOMAIN d.commissions : x.partner = p /\ x.status = "PAID" }
        |-> d.commissions[c]]

\* self.payouts.filter(status__in=['APPROVED', 'PAID'])
CountedPayouts(d, p) == PayoutsIn(d, p, {"APPROVED", "PAID"})

\* self.payouts with the requests under review counted as well
CountedPayoutsWithPending(d, p) == PayoutsIn(d, p, {"PENDING", "APPROVED", "PAID"})

BalanceFields(total_commissions, total_payouts) ==
    [total_earnings |-> total_commissions,
     available_balance |-> total_commissions - total_payouts,
     total_paid_out |-> total_payouts]

\* update_balance with the PENDING requests taken off the balance too
update_balance_with_pending(d, p) ==
    [d EXCEPT !.partners[p] =
        BalanceFields(OrZero(Aggregate(PaidCommissions(d, p))),
                      OrZero(Aggregate(CountedPayoutsWithPending(d, p))))]

\* Partner.update_balance: recompute and save the three figures
update_balance(d, p) ==
    [d EXCEPT !.partners[p] =
        BalanceFields(OrZero(Aggregate(PaidCommissions(d, p))),
                      OrZero(Aggregate(CountedPayouts(d, p))))]

NotificationRow(user, type, id) ==
    [user |-> user, notification_type |-> type, related_object_id |-> id]

\* Notification.objects.create(...)
Notify(d, user, type, id) ==
    [d EXCEPT !.notifications = @ (+) SetToBag({NotificationRow(user, type, id)})]

\* post_save receiver of PayoutRequest
handle_payout_notification(d, id, created) ==
    IF ~created /\ d.payouts[id].status = "APPROVED"
    THEN Notify(d, PartnerUser(d.payouts[id].partner), "payout", id)
    ELSE d

\* payout.save() of a stored request: the row is written, post_save is sent
SavePayout(d, id, row) ==
    handle_payout_notification([d EXCEPT !.payouts[id] = row], id, FALSE)

\* PayoutRequest.objects.create(partner=partner, **validated_data)
CreatePayout(d, p, amount) ==
    handle_payout_notification(
        [d EXCEPT !.payouts =
            Append(@, [partner |-> p, amount |-> amount, status |-> "PENDING"])],
        Len(d.payouts) + 1, TRUE)

\* what an endpoint leaves: the rows and its response
Reply(d, op, user, id, status, error) ==
    [db |-> d,
     response |-> [op |-> op, user |-> user, payout |-> id,
                   status |-> status, error |-> error]]

\* partner_balance
partner_balance(d, user) ==
    IF IsNone(PartnerOf(user)) THEN Reply(d, "balance", user, 0, 403, "not_partner")
    ELSE Reply(update_balance(d, PartnerOf(user)[1]), "balance", user, 0, 200, "")

\* the validation without the minimum payout amount
AmountErrorNoMinimum(d, p, value) ==
    IF value > d.partners[p].available_balance THEN "exceeds" ELSE ""

AmountError(d, p, value) ==
    IF value > d.partners[p].available_balance THEN "exceeds"
    ELSE IF value < MinPayout THEN "minimum"
    ELSE ""

\* PayoutRequestCreateSerializer.validate_amount, with the rows it leaves
validate_amount(d, user, value) ==
    IF IsNone(PartnerOf(user)) THEN [db |-> d, error |-> ""]
    ELSE [db |-> update_balance(d, PartnerOf(user)[1]),
          error |-> AmountError(update_balance(d, PartnerOf(user)[1]),
                                PartnerOf(user)[1], value)]

\* create_payout_request after serializer.is_valid()
PayoutSubmitted(v, user, p, amount) ==
    IF v.error = ""
    THEN Reply(Notify(CreatePayout(v.db, p, amount), user, "payout_submitted",
                      Len(v.db.payouts) + 1),
               "create", user, Len(v.db.payouts) + 1, 201, "")
    ELSE Reply(v.db, "create", user, 0, 400, v.error)

create_payout_request(d, user, amount) ==
    IF IsNone(PartnerOf(user)) THEN Reply(d, "create", user, 0, 403, "not_partner")
    ELSE PayoutSubmitted(
             validate_amount(update_balance(d, PartnerOf(user)[1]), user, amount),
             user, PartnerOf(user)[1], amount)

\* PayoutRequest.can_be_cancelled
can_be_cancelled(payout) == payout.status = "PENDING"

cancel_payout_request(d, user, id) ==
    IF IsNone(PartnerOf(user)) THEN Reply(d, "cancel", user, id, 403, "not_partner")
    ELSE IF id \notin DOMAIN d.payouts \/ d.payouts[id].partner # PartnerOf(user)[1]
    THEN Reply(d, "cancel", user, id, 404, "not_found")
    ELSE IF ~can_be_cancelled(d.payouts[id])
    THEN Reply(d, "cancel", user, id, 400, "status")
    ELSE Reply(Notify(update_balance(
                          SavePayout(d, id, [d.payouts[id] EXCEPT !.status = "CANCELLED"]),
                          PartnerOf(user)[1]),
                      user, "payout_cancelled", id),
               "cancel", user, id, 200, "")

Proceed == [status |-> 0, error |-> ""]

\* the staff check and the lookup of an admin endpoint
AdminLookup(d, user, id) ==
    IF ~is_staff(user) THEN [status |-> 403, error |-> "staff"]
    ELSE IF id \notin DOMAIN d.payouts THEN [status |-> 404, error |-> "not_found"]
    ELSE Proceed

\* the checks of an admin endpoint that works on requests in status `from`
AdminRefusal(d, user, id, from) ==
    IF AdminLookup(d, user, id) # Proceed THEN AdminLookup(d, user, id)
    ELSE IF d.payouts[id].status # from THEN [status |-> 400, error |-> "status"]
    ELSE Proceed

\* the approval's balance check answered yes whatever the balance
any_balance(d, payout) == TRUE

\* not (payout.amount > payout.partner.available_balance)
has_sufficient_balance(d, payout) ==
    ~(payout.amount > d.partners[payout.partner].available_balance)

\* admin_approve_payout from payout.status = 'APPROVED' to the notification
approve_commit(d, id, payout) ==
    Notify(update_balance(SavePayout(d, id, [payout EXCEPT !.status = "APPROVED"]),
                          payout.partner),
           PartnerUser(payout.partner), "payout_approved", id)

\* admin_approve_payout after its first update_balance
ApproveVerified(d, user, id, payout) ==
    IF has_sufficient_balance(d, payout)
    THEN Reply(approve_commit(d, id, payout), "approve", user, id, 200, "")
    ELSE Reply(d, "approve", user, id, 400, "balance")

admin_approve_payout(d, user, id) ==
    IF AdminRefusal(d, user, id, "PENDING") # Proceed
    THEN Reply(d, "approve", user, id, AdminRefusal(d, user, id, "PENDING").status,
               AdminRefusal(d, user, id, "PENDING").error)
    ELSE ApproveVerified(update_balance(d, d.payouts[id].partner), user, id, d.payouts[id])

\* the rejection's checks without the status check
RejectRefusalAnyStatus(d, user, id) == AdminLookup(d, user, id)

RejectRefusal(d, user, id) == AdminRefusal(d, user, id, "PENDING")

admin_reject_payout(d, user, id) ==
    IF RejectRefusal(d, user, id) # Proceed
    THEN Reply(d, "reject", user, id, RejectRefusal(d, user, id).status,
               RejectRefusal(d, user, id).error)
    ELSE Reply(Notify(update_balance(
                          SavePayout(d, id, [d.payouts[id] EXCEPT !.status = "REJECTED"]),
                          d.payouts[id].partner),
                      PartnerUser(d.payouts[id].partner), "payout_rejected", id),
               "reject", user, id, 200, "")

TransactionRow(id, payout) ==
    [payout_request |-> id, amount |-> payout.amount, currency |-> "AED",
     partner |-> payout.partner, net_amount |-> payout.amount]

\* PayoutTransaction.objects.create(...); payout_request is a OneToOneField
CreateTransaction(d, id, payout) ==
    [d EXCEPT !.payout_transactions = Append(@, TransactionRow(id, payout))]

HasTransaction(d, id) ==
    \E i \in DOMAIN d.payout_transactions : d.payout_transactions[i].payout_request = id

\* admin_mark_paid after payout.save() and update_balance; inserted tells
\* whether the database stores the PayoutTransaction row or raises
MarkPaidSaved(d, user, id, payout, inserted) ==
    IF inserted /\ ~HasTransaction(d, id)
    THEN Reply(Notify(CreateTransaction(d, id, payout),
                      PartnerUser(payout.partner), "payout_paid", id),
               "mark_paid", user, id, 200, "")
    ELSE Reply(d, "mark_paid", user, id, 500, "transaction")

admin_mark_paid(d, user, id, inserted) ==
    IF AdminRefusal(d, user, id, "APPROVED") # Proceed
    THEN Reply(d, "mark_paid", user, id, AdminRefusal(d, user, id, "APPROVED").status,
               AdminRefusal(d, user, id, "APPROVED").error)
    ELSE MarkPaidSaved(update_balance(
                           SavePayout(d, id, [d.payouts[id] EXCEPT !.status = "PAID"]),
                           d.payouts[id].partner),
                       user, id, d.payouts[id], inserted)

(***************************************************************************)
(* Referral signups: the post_save receiver of UserProfile                 *)
(***************************************************************************)
ClientUsers == {4, 5}
MaxSaves == 3
UnknownCode == 99999999

\* partner.referral_code, unique
ReferralCode(p) == 10000000 + p

\* profile.referral_code_used: absent, a partner's code, or nobody's code
ReferralCodes ==
    {None, Some(UnknownCode)} \cup { Some(ReferralCode(p)) : p \in Partners }

\* Partner.objects.get(referral_code=...): the partners holding the code
PartnersByCode(code) == { p \in Partners : ReferralCode(p) = code }

\* PartnerClient.objects.get_or_create(client_user=instance.user, defaults=...)
get_or_create_client(d, user, p) ==
    IF \E i \in DOMAIN d.partner_clients : d.partner_clients[i].client_user = user
    THEN d
    ELSE [d EXCEPT !.partner_clients =
             Append(@, [client_user |-> user, partner |-> p, is_active |-> FALSE])]

\* the handler's filter(...).exists() answered no whatever the rows
never_exists(d, p, user) == FALSE

\* Notification.objects.filter(user, notification_type="signup", related_object_id).exists()
already_exists(d, p, user) ==
    BagIn(NotificationRow(PartnerUser(p), "signup", user), d.notifications)

SignupNotified(d, p, user) ==
    IF ~already_exists(d, p, user) THEN Notify(d, PartnerUser(p), "signup", user) ELSE d

SignupForPartner(d, user, p) == SignupNotified(get_or_create_client(d, user, p), p, user)

\* handle_new_user_signup(sender, instance, created)
handle_new_user_signup(d, user, referral_code_used) ==
    IF IsNone(referral_code_used) THEN d
    ELSE IF PartnersByCode(referral_code_used[1]) = {} THEN d
    ELSE SignupForPartner(d, user, CHOOSE p \in PartnersByCode(referral_code_used[1]) : TRUE)

(***************************************************************************)
(* The steps of the partner endpoints                                      *)
(***************************************************************************)
Workers == {1, 2}
IdleApproval == [pc |-> "idle", user |-> 0, id |-> 0, payout |-> None]

\* the profile of a user who has not signed up; used records every value
\* referral_code_used had at a save
NoProfile == [referral_code_used |-> None, saves |-> 0, used |-> {}]

Store(r) ==
    /\ StoreDb(r.db)
    /\ response' = Some(r.response)

\* a PartnerCommission row is added; nothing else is touched
AddCommission ==
    /\ \E p \in Partners, amount \in CommissionAmounts, status \in {"PAID", "PENDING"} :
          /\ BagCardinality(commissions) < MaxCommissions
          /\ commissions' = commissions
                               (+) SetToBag({[partner |-> p, amount |-> amount,
                                              status |-> status]})
    /\ response' = None
    /\ UNCHANGED << partners, payouts, payout_transactions, notifications,
                    partner_clients, approving, profiles >>
    /\ UNCHANGED outside_partner_data

PartnerBalance ==
    /\ \E user \in Users : Store(partner_balance(Db, user))
    /\ UNCHANGED << approving, profiles >>
    /\ UNCHANGED outside_partner_data

CreatePayoutRequest ==
    /\ Len(payouts) < MaxPayouts
    /\ \E user \in Users, amount \in PayoutAmounts :
          Store(create_payout_request(Db, user, amount))
    /\ UNCHANGED << approving, profiles >>
    /\ UNCHANGED outside_partner_data

CancelPayoutRequest ==
    /\ \E user \in Users, id \in PayoutIds : Store(cancel_payout_request(Db, user, id))
    /\ UNCHANGED << approving, profiles >>
    /\ UNCHANGED outside_partner_data

AdminApprovePayout ==
    /\ \E user \in Users, id \in PayoutIds : Store(admin_approve_payout(Db, user, id))
    /\ UNCHANGED << approving, profiles >>
    /\ UNCHANGED outside_partner_data

AdminRejectPayout ==
    /\ \E user \in Users, id \in PayoutIds : Store(admin_reject_payout(Db, user, id))
    /\ UNCHANGED << approving, profiles >>
    /\ UNCHANGED outside_partner_data

AdminMarkPaid ==
    /\ \E user \in Users, id \in PayoutIds, inserted \in BOOLEAN :
          Store(admin_mark_paid(Db, user, id, inserted))
    /\ UNCHANGED << approving, profiles >>
    /\ UNCHANGED outside_partner_data

\* the notifications of one type about one object
Notices(rows, user, type, id) == CopiesIn(NotificationRow(user, type, id), rows)

\* a stored request is saved again with no field changed
ResavePayout ==
    /\ \E id \in DOMAIN payouts :
          /\ Notices(notifications, PartnerUser(payouts[id].partner), "payout", id) <= MaxResaves
          /\ StoreDb(SavePayout(Db, id, payouts[id]))
    /\ response' = None
    /\ UNCHANGED << approving, profiles >>
    /\ UNCHANGED outside_partner_data

\* admin_approve_payout in three steps: the checks on the request read,
\* the balance check, and the save with what follows it
ApproveBegin ==
    /\ \E w \in Workers, user \in Users, id \in PayoutIds :
          /\ approving[w].pc = "idle"
          /\ IF AdminRefusal(Db, user, id, "PENDING") # Proceed
             THEN /\ response' = Some(Reply(Db, "approve", user, id,
                                            AdminRefusal(Db, user, id, "PENDING").status,
                                            AdminRefusal(Db, user, id, "PENDING").error).response)
                  /\ UNCHANGED approving
             ELSE /\ approving' = [approving EXCEPT ![w] =
                                      [pc |-> "read", user |-> user, id |-> id,
                                       payout |-> Some(payouts[id])]]
                  /\ UNCHANGED response
    /\ UNCHANGED << partners, commissions, payouts, payout_transactions, notifications,
                    partner_clients, profiles >>
    /\ UNCHANGED outside_partner_data

ApproveVerify ==
    /\ \E w \in Workers :
          /\ approving[w].pc = "read"
          /\ StoreDb(update_balance(Db, approving[w].payout[1].partner))
          /\ IF has_sufficient_balance(update_balance(Db, approving[w].payout[1].partner),
                                       approving[w].payout[1])
             THEN /\ approving' = [approving EXCEPT ![w].pc = "verified"]
                  /\ UNCHANGED response
             ELSE /\ approving' = [approving EXCEPT ![w] = IdleApproval]
                  /\ response' = Some(Reply(Db, "approve", approving[w].user, approving[w].id,
                                            400, "balance").response)
    /\ UNCHANGED profiles
    /\ UNCHANGED outside_partner_data

ApproveCommit ==
    /\ \E w \in Workers :
          /\ approving[w].pc = "verified"
          /\ Store(Reply(approve_commit(Db, approving[w].id, approving[w].payout[1]),
                         "approve", approving[w].user, approving[w].id, 200, ""))
          /\ approving' = [approving EXCEPT ![w] = IdleApproval]
    /\ UNCHANGED profiles
    /\ UNCHANGED outside_partner_data

\* a UserProfile is saved, for the first time or again, and post_save is sent
SaveUserProfile ==
    /\ \E user \in ClientUsers, code \in ReferralCodes :
          /\ profiles[user].saves < MaxSaves
          /\ profiles' = [profiles EXCEPT ![user] =
                             [referral_code_used |-> code, saves |-> @.saves + 1,
                              used |-> @.used \cup {code}]]
          /\ StoreDb(handle_new_user_signup(Db, user, code))
    /\ UNCHANGED << response, approving >>
    /\ UNCHANGED outside_partner_data

InitPayout ==
    /\ invoice = DefaultInvoice
    /\ line_items = << >>
    /\ NoOutput
    /\ NoCreation
    /\ partners = [p \in Partners |-> NewPartner]
    /\ commissions = EmptyBag
    /\ payouts = << >>
    /\ payout_transactions = << >>
    /\ notifications = EmptyBag
    /\ response = None
    /\ approving = [w \in Workers |-> IdleApproval]
    /\ profiles = [u \in ClientUsers |-> NoProfile]
    /\ partner_clients = << >>

\* SpecPayout: the payout endpoints handled one at a time
NextPayout ==
    \/ AddCommission
    \/ PartnerBalance
    \/ CreatePayoutRequest
    \/ CancelPayoutRequest
    \/ AdminApprovePayout
    \/ AdminRejectPayout
    \/ AdminMarkPaid

SpecPayout == InitPayout /\ [][NextPayout]_vars

\* SpecResave: approvals and payments, and stored requests saved again
NextResave ==
    \/ AddCommission
    \/ CreatePayoutRequest
    \/ AdminApprovePayout
    \/ AdminMarkPaid
    \/ ResavePayout

SpecResave == InitPayout /\ [][NextResave]_vars

\* SpecApprove: approvals whose steps interleave
NextApprove ==
    \/ AddCommission
    \/ CreatePayoutRequest
    \/ ApproveBegin
    \/ ApproveVerify
    \/ ApproveCommit

SpecApprove == InitPayout /\ [][NextApprove]_vars

\* SpecSignup: profile saves, one at a time
NextSignup == SaveUserProfile

SpecSignup == InitPayout /\ [][NextSignup]_vars

(***************************************************************************)
(* Reading the documents back                                              *)
(***************************************************************************)
IsDigit(c) == c >= 48 /\ c <= 57

RECURSIVE DigitsValue(_)
DigitsValue(s) ==
    IF Len(s) = 0 THEN 0
    ELSE 10 * DigitsValue(SubSeq(s, 1, Len(s) - 1)) + (s[Len(s)] - 48)

\* the number of hundredths a printed amount stands for: an optional "AED "
\* prefix, digits with optional thousands separators, a point and exactly two
\* digits; -1 for any other text
MoneyValue(s) ==
    LET t == IF Len(s) >= 4 /\ SubSeq(s, 1, 4) = AED THEN SubSeq(s, 5, Len(s)) ELSE s
        n == Len(t)
    IN  IF /\ n >= 4
           /\ t[n - 2] = 46
           /\ IsDigit(t[n - 1]) /\ IsDigit(t[n]) /\ IsDigit(t[1])
           /\ \A i \in 1..(n - 3) : IsDigit(t[i]) \/ t[i] = 44
        THEN DigitsValue(SelectSeq(t, IsDigit))
        ELSE 0 - 1

\* the records of a TLV byte string, read front to back; a record that
\* overruns the input is reported with tag -1
RECURSIVE ParseTLV(_)
ParseTLV(b) ==
    IF Len(b) = 0 THEN << >>
    ELSE IF Len(b) < 2 \/ Len(b) < 2 + b[2]
    THEN << [tag |-> 0 - 1, length |-> 0, value |-> b] >>
    ELSE << [tag |-> b[1], length |-> b[2], value |-> SubSeq(b, 3, 2 + b[2])] >>
         \o ParseTLV(SubSeq(b, 3 + b[2], Len(b)))

Zero2 == << 48, 46, 48, 48 >>  \* "0.00"

Done(out) == out # None
Ok(out) == out # None /\ Get(out).ok
pdf == Get(pdf_out)
xml == Get(xml_out)
qr == Get(qr_out)
json == Get(json_out)

(***************************************************************************)
(* The Monetary Line Calculator of the design: net, VAT and gross of a     *)
(* line and the invoice aggregates; a null field counts as 0.              *)
(***************************************************************************)
ExactNet(item) == DMul(DecOrZero(item.quantity), DecOrZero(item.unit_price))
ExactVat(item) == DMul(ExactNet(item), DecOrZero(item.vat_rate))
ExactGross(item) == DAdd(ExactNet(item), ExactVat(item))

\* two-decimal roundings of an exact decimal under the two usual tie rules
HalfEven(x) == DecToCents(x)
HalfUp(x) ==
    IF x.e <= 2 THEN x.c * 10^(2 - x.e)
    ELSE LET d == 10^(x.e - 2)
         IN  IF 2 * (x.c % d) >= d THEN (x.c \div d) + 1 ELSE x.c \div d
Rounded2(x) == {HalfEven(x), HalfUp(x)}

FloatNet(item) == FMul(ItemFloat(item, "quantity"), ItemFloat(item, "unit_price"))
FloatVat(item) == FMul(FloatNet(item), ItemFloat(item, "vat_rate"))
FloatGross(item) == FAdd(FloatNet(item), FloatVat(item))

RECURSIVE FloatSum(_, _, _)
FloatSum(items, F(_), acc) ==
    IF Len(items) = 0 THEN acc ELSE FloatSum(Tail(items), F, FAdd(acc, F(items[1])))

RECURSIVE IntSum(_)
IntSum(s) == IF Len(s) = 0 THEN 0 ELSE s[1] + IntSum(Tail(s))

\* the grand total and VAT total carried by QR tags 4 and 5, in hundredths
QrTag(n) == ParseTLV(b64decode(qr.text))[n].value

\* the five QR fields of the invoice as generate_fatoora_qr takes them; the
\* third is the issue date, or a reading of the clock when there is none
QrSeller == Get(Or(invoice.company.name, Some(<< >>)))
QrTrn == Get(Or(invoice.company.tax_registration_number, Some(<< >>)))
QrDates ==
    IF IsNone(invoice.issue_date) THEN UtcNow ELSE {IsoDate(Get(invoice.issue_date))}
QrFieldsFit == Len(Utf8(QrSeller)) <= MaxByte /\ Len(Utf8(QrTrn)) <= MaxByte

\* a text of digits, a point and two digits
IsPlain2(s) ==
    /\ Len(s) >= 4
    /\ s[Len(s) - 2] = 46
    /\ \A i \in 1..Len(s) : i # Len(s) - 2 => IsDigit(s[i])

(***************************************************************************)
(* C1: when each of the five QR fields encodes to at most 255 UTF-8 bytes, *)
(* base64-decoding the output of generate_fatoora_qr gives exactly five    *)
(* TLV records with tags 1..5 in order and nothing else, each length byte  *)
(* is the UTF-8 byte count of its value, and tags 4 and 5 carry the grand  *)
(* total and the VAT total with exactly two decimals.                      *)
(***************************************************************************)
C1_QrRoundTrip ==
    (Done(qr_out) /\ QrFieldsFit) =>
        /\ qr.ok
        /\ LET recs == ParseTLV(b64decode(qr.text))
           IN  /\ Len(recs) = 5
               /\ \A i \in 1..5 : recs[i].tag = i /\ recs[i].length = Len(recs[i].value)
               /\ recs[1].value = Utf8(QrSeller)
               /\ recs[2].value = Utf8(QrTrn)
               /\ \E d \in QrDates : recs[3].value = Utf8(d)
               /\ IsPlain2(recs[4].value) /\ IsPlain2(recs[5].value)
               /\ MoneyValue(recs[4].value)
                     = HalfEven(DAdd(invoice.total_amount, invoice.total_vat_amount))
               /\ MoneyValue(recs[5].value) = HalfEven(invoice.total_vat_amount)

\* a QR has been generated for a seller name with multi-byte characters and
\* totals that are not zero
C1_Witness ==
    /\ Ok(qr_out)
    /\ invoice.company.name = Some(S_Cafe)
    /\ Len(Utf8(QrSeller)) > Len(QrSeller)
    /\ ~DIsZero(invoice.total_vat_amount)
    /\ Len(ParseTLV(b64decode(qr.text))) = 5

(***************************************************************************)
(* C2: in every state reached by adding, editing or removing line items    *)
(* the three encodings agree on the money: QR tag 4 = XML PayableAmount =  *)
(* PDF GRAND TOTAL and QR tag 5 = XML TaxTotal/TaxAmount = PDF VAT Total,  *)
(* as two-decimal values.                                                  *)
(***************************************************************************)
C2_EncodingsAgree ==
    /\ (Ok(qr_out) /\ Ok(xml_out)) =>
          /\ MoneyValue(QrTag(4)) = MoneyValue(xml.LegalMonetaryTotal.PayableAmount)
          /\ MoneyValue(QrTag(5)) = MoneyValue(xml.TaxTotal.TaxAmount)
    /\ (Ok(qr_out) /\ Ok(pdf_out)) =>
          /\ MoneyValue(QrTag(4)) = MoneyValue(pdf.totals.grand_total)
          /\ MoneyValue(QrTag(5)) = MoneyValue(pdf.totals.vat_total)

(***************************************************************************)
(* C3: for the same ordered line items the PDF totals block and the XML    *)
(* report the same subtotal (TaxExclusiveAmount), VAT total (TaxTotal /    *)
(* TaxAmount) and grand total (TaxInclusiveAmount) to two decimals.        *)
(***************************************************************************)
C3_PdfXmlTotalsAgree ==
    (Ok(pdf_out) /\ Ok(xml_out)) =>
        /\ MoneyValue(pdf.totals.subtotal) >= 0
        /\ MoneyValue(pdf.totals.subtotal)
              = MoneyValue(xml.LegalMonetaryTotal.TaxExclusiveAmount)
        /\ MoneyValue(pdf.totals.vat_total) = MoneyValue(xml.TaxTotal.TaxAmount)
        /\ MoneyValue(pdf.totals.grand_total)
              = MoneyValue(xml.LegalMonetaryTotal.TaxInclusiveAmount)

\* both documents exist for an invoice with two lines whose VAT total is not zero
C3_Witness ==
    /\ Ok(pdf_out) /\ Ok(xml_out)
    /\ Len(line_items) = 2
    /\ MoneyValue(pdf.totals.vat_total) > 0
    /\ MoneyValue(pdf.totals.grand_total) > MoneyValue(pdf.totals.subtotal)

\* the amounts of an XML document: invoice level and per line
XmlAmountFields(x) ==
    [TaxTotal |-> [TaxAmount     |-> x.TaxTotal.TaxAmount,
                   TaxableAmount |-> x.TaxTotal.TaxSubtotal.TaxableAmount,
                   SubTaxAmount  |-> x.TaxTotal.TaxSubtotal.TaxAmount],
     Lines    |-> [i \in 1..Len(x.InvoiceLine) |->
                      << x.InvoiceLine[i].LineExtensionAmount,
                         x.InvoiceLine[i].TaxTotal.TaxAmount,
                         x.InvoiceLine[i].TaxTotal.TaxSubtotal.TaxableAmount,
                         x.InvoiceLine[i].TaxTotal.TaxSubtotal.TaxAmount >>],
     LegalMonetaryTotal |-> x.LegalMonetaryTotal]

\* cached totals an invoice may carry: those in the state, those the line
\* items give, zero, and the ones the admin form may set
CachedTotals ==
    AdminTotals \cup
    { [total_amount |-> invoice.total_amount,
       total_vat_amount |-> invoice.total_vat_amount],
      [total_amount |-> SumNet(line_items), total_vat_amount |-> SumVat(line_items)],
      [total_amount |-> DZero, total_vat_amount |-> DZero] }

(***************************************************************************)
(* C4: the monetary amounts of the XML are a function of the line items    *)
(* only: invoices that differ only in the cached total_amount /            *)
(* total_vat_amount give XML with the same TaxTotal, TaxSubtotal, per-line *)
(* and LegalMonetaryTotal amounts, and these are the values derived from   *)
(* the line items even when the cached totals disagree with them.          *)
(***************************************************************************)
C4_XmlFromLinesOnly ==
    Ok(xml_out) =>
        /\ \A t \in CachedTotals, now \in ClockReadings(invoice), qr_ok \in BOOLEAN :
              LET other == generate_invoice_xml(
                               [invoice EXCEPT
                                   !.total_amount = t.total_amount,
                                   !.total_vat_amount = t.total_vat_amount],
                               line_items, now, qr_ok)
              IN  other.ok /\ XmlAmountFields(other) = XmlAmountFields(xml)
        /\ LET subtotal  == FloatSum(line_items, FloatNet, FZero)
               total_vat == FloatSum(line_items, FloatVat, FZero)
           IN  /\ xml.TaxTotal.TaxAmount = FloatFmt2(total_vat)
               /\ xml.TaxTotal.TaxSubtotal.TaxableAmount = FloatFmt2(subtotal)
               /\ xml.TaxTotal.TaxSubtotal.TaxAmount = FloatFmt2(total_vat)
               /\ xml.LegalMonetaryTotal.LineExtensionAmount = FloatFmt2(subtotal)
               /\ xml.LegalMonetaryTotal.TaxExclusiveAmount = FloatFmt2(subtotal)
               /\ xml.LegalMonetaryTotal.TaxInclusiveAmount
                     = FloatFmt2(FAdd(subtotal, total_vat))
               /\ xml.LegalMonetaryTotal.PayableAmount
                     = FloatFmt2(FAdd(subtotal, total_vat))
               /\ Len(xml.InvoiceLine) = Len(line_items)
               /\ \A i \in 1..Len(line_items) :
                     /\ xml.InvoiceLine[i].LineExtensionAmount
                           = FloatFmt2(FloatNet(line_items[i]))
                     /\ xml.InvoiceLine[i].TaxTotal.TaxAmount
                           = FloatFmt2(FloatVat(line_items[i]))

\* an XML exists for an invoice with a line item whose cached totals were
\* edited away from what the line items give
C4_Witness ==
    /\ Ok(xml_out)
    /\ Len(line_items) >= 1
    /\ invoice.total_amount # SumNet(line_items)
    /\ invoice.total_vat_amount # SumVat(line_items)
    /\ MoneyValue(xml.LegalMonetaryTotal.PayableAmount) > 0
    /\ MoneyValue(xml.LegalMonetaryTotal.PayableAmount)
          # HalfEven(DAdd(invoice.total_amount, invoice.total_vat_amount))

\* the invoice carries a structured bank-details override
HasBankOverride ==
    /\ ~IsNone(invoice.bank_details)
    /\ Get(invoice.bank_details).is_dict
    /\ DOMAIN Get(invoice.bank_details).d # {}

\* the issuer's stored default bank details, as a set of at most one triple
IssuerDefaultBank ==
    IF "bank_details" \in DOMAIN invoice.company
    THEN LET rows == invoice.company.bank_details
         IN  { [k \in BankKeys |-> rows[i][k]] :
                  i \in { j \in 1..Len(rows) :
                             /\ rows[j].is_default
                             /\ \A h \in 1..(j - 1) : ~rows[h].is_default } }
    ELSE {}

BankTriple(b) == << b["bank_name"], b["account_number"], b["iban"] >>

\* what the three tiers give for the invoice in the state
BankAsResolved(b) ==
    IF HasBankOverride
    THEN LET d == Get(invoice.bank_details).d
         IN  /\ DOMAIN b = BankKeys
             /\ \A k \in DOMAIN d : b[k] = d[k]
             /\ \A k \in BankKeys \ DOMAIN d : b[k] = FallbackBank[k]
    ELSE IF IssuerDefaultBank # {}
    THEN b \in IssuerDefaultBank
    ELSE BankTriple(b) = << "Emirates NBD", "1234 5678 9012", "AE00 1234 5678 9012" >>

SevenEmirates ==
    << << S_AbuDhabi, S_AZ >>, << S_Dubai, S_DU >>, << S_Sharjah, S_SH >>,
       << S_Ajman, S_AJ >>, << S_UmmAlQuwain, S_UQ >>, << S_RasAlKhaimah, S_RK >>,
       << S_Fujairah, S_FU >> >>

\* the spellings the table holds beside the seven names
EmirateAliases ==
    << << S_AbuDhabiJoined, S_AZ >>, << S_Abu_Dhabi, S_AZ >>, << S_AD, S_AZ >>,
       << S_DU, S_DU >>, << S_SH, S_SH >> >>

Lookup(table, key) == { table[i][2] : i \in { j \in 1..Len(table) : table[j][1] = key } }

\* the seven names give their codes, every other text its first two
\* characters uppercased
SevenOrPrefix(s) ==
    IF Lookup(SevenEmirates, s) # {} THEN Lookup(SevenEmirates, s)
    ELSE {Upper(Prefix(s, 2))}

\* the seven names and the aliases, compared after surrounding white space is
\* removed, give their codes; every other text gives the first two characters
\* of the text as given, uppercased
TableOrPrefix(s) ==
    IF Lookup(SevenEmirates \o EmirateAliases, Strip(s)) # {}
    THEN Lookup(SevenEmirates \o EmirateAliases, Strip(s))
    ELSE {Upper(Prefix(s, 2))}

XmlAddresses ==
    { xml.AccountingSupplierParty.PostalAddress,
      xml.AccountingCustomerParty.PostalAddress }

\* C6 as stated: the seven names map to AZ, DU, SH, AJ, UQ, RK, FU and every
\* other non-empty region string to its first two characters uppercased; the
\* CountrySubentityCode of supplier and customer is this mapping of the
\* CityName beside it.
C6_AsStated ==
    Ok(xml_out) =>
        \A a \in XmlAddresses :
            /\ Len(a.CityName) > 0
            /\ a.CountrySubentityCode \in SevenOrPrefix(a.CityName)

(***************************************************************************)
(* C6: get_emirate_code maps the seven emirate names, and the spellings    *)
(* AbuDhabi, Abu_Dhabi, AD (to AZ), DU and SH, compared after surrounding  *)
(* white space is removed, to their two-letter codes, and every other      *)
(* non-empty region string to the first two characters of the string as    *)
(* given, uppercased; the XML CountrySubentityCode of supplier and         *)
(* customer is this mapping of the CityName beside it.                     *)
(***************************************************************************)
C6_EmirateCode ==
    Ok(xml_out) =>
        \A a \in XmlAddresses :
            /\ Len(a.CityName) > 0
            /\ a.CountrySubentityCode \in TableOrPrefix(a.CityName)

\* an XML exists whose supplier city is " Dubai" with code DU and whose
\* customer city is "AD" with code AZ
C6_Witness ==
    /\ Ok(xml_out)
    /\ xml.AccountingSupplierParty.PostalAddress.CityName = S_DubaiLead
    /\ xml.AccountingSupplierParty.PostalAddress.CountrySubentityCode = S_DU
    /\ xml.AccountingCustomerParty.PostalAddress.CityName = S_AD
    /\ xml.AccountingCustomerParty.PostalAddress.CountrySubentityCode = S_AZ

(***************************************************************************)
(* C7: every generator computes net = quantity x unit_price, vat = net x   *)
(* vat_rate, gross = net + vat per line and subtotal = sum of net,         *)
(* total_vat = sum of vat, grand_total = subtotal + total_vat over the     *)
(* invoice's line items, a null quantity, price or rate counting as 0; the *)
(* PDF, the XML and the JSON generator all do so.                          *)
(***************************************************************************)
C7_LineRule ==
    LET subtotal  == FloatSum(line_items, FloatNet, FZero)
        total_vat == FloatSum(line_items, FloatVat, FZero)
        grand     == FAdd(subtotal, total_vat)
        n         == Len(line_items)
    IN  /\ Done(pdf_out) =>
            /\ pdf.ok
            /\ Len(pdf.data) = n
            /\ \A i \in 1..n :
                  /\ pdf.data[i].vat_amount = FloatFmtAED(FloatVat(line_items[i]))
                  /\ pdf.data[i].total = FloatFmtAED(FloatGross(line_items[i]))
            /\ pdf.totals.subtotal = FloatFmtAED(subtotal)
            /\ pdf.totals.vat_total = FloatFmtAED(total_vat)
            /\ pdf.totals.grand_total = FloatFmtAED(grand)
        /\ Done(xml_out) =>
            /\ xml.ok
            /\ Len(xml.InvoiceLine) = n
            /\ \A i \in 1..n :
                  /\ xml.InvoiceLine[i].LineExtensionAmount
                        = FloatFmt2(FloatNet(line_items[i]))
                  /\ xml.InvoiceLine[i].TaxTotal.TaxAmount
                        = FloatFmt2(FloatVat(line_items[i]))
            /\ xml.LegalMonetaryTotal.TaxExclusiveAmount = FloatFmt2(subtotal)
            /\ xml.TaxTotal.TaxAmount = FloatFmt2(total_vat)
            /\ xml.LegalMonetaryTotal.TaxInclusiveAmount = FloatFmt2(grand)
        /\ Done(json_out) =>
            /\ json.ok
            /\ Len(json.LineItems) = n
            /\ \A i \in 1..n :
                  /\ json.LineItems[i].VATAmount = FloatVat(line_items[i])
                  /\ json.LineItems[i].Total = FloatGross(line_items[i])
            /\ json.Totals.Subtotal = subtotal
            /\ json.Totals.VATAmount = total_vat
            /\ json.Totals.GrandTotal = grand

(***************************************************************************)
(* C8: an invoice without line items is rendered without error by the PDF  *)
(* and the XML generator, subtotal, VAT total and grand total all "0.00"   *)
(* and no InvoiceLine element.                                             *)
(***************************************************************************)
C8_ZeroLineInvoice ==
    Len(line_items) = 0 =>
        /\ Done(pdf_out) =>
              /\ pdf.ok
              /\ pdf.data = << >>
              /\ pdf.totals.subtotal = AED \o Zero2
              /\ pdf.totals.vat_total = AED \o Zero2
              /\ pdf.totals.grand_total = AED \o Zero2
        /\ Done(xml_out) =>
              /\ xml.ok
              /\ xml.InvoiceLine = << >>
              /\ xml.TaxTotal.TaxAmount = Zero2
              /\ xml.TaxTotal.TaxSubtotal.TaxableAmount = Zero2
              /\ xml.LegalMonetaryTotal.LineExtensionAmount = Zero2
              /\ xml.LegalMonetaryTotal.TaxExclusiveAmount = Zero2
              /\ xml.LegalMonetaryTotal.TaxInclusiveAmount = Zero2
              /\ xml.LegalMonetaryTotal.PayableAmount = Zero2

\* both documents have been generated for an invoice with no line items
C8_Witness ==
    /\ Len(line_items) = 0
    /\ Ok(pdf_out) /\ Ok(xml_out)
    /\ xml.LegalMonetaryTotal.PayableAmount = Zero2
    /\ pdf.totals.grand_total = AED \o Zero2

(***************************************************************************)
(* C9: in the XML as printed the per-line LineExtensionAmount values add   *)
(* up to LegalMonetaryTotal/LineExtensionAmount, the per-line TaxAmount    *)
(* values add up to TaxTotal/TaxAmount, and TaxInclusiveAmount is          *)
(* TaxExclusiveAmount plus TaxAmount.                                      *)
(***************************************************************************)
C9_PrintedSumsAgree ==
    Ok(xml_out) =>
        /\ IntSum([i \in 1..Len(xml.InvoiceLine) |->
                      MoneyValue(xml.InvoiceLine[i].LineExtensionAmount)])
              = MoneyValue(xml.LegalMonetaryTotal.LineExtensionAmount)
        /\ IntSum([i \in 1..Len(xml.InvoiceLine) |->
                      MoneyValue(xml.InvoiceLine[i].TaxTotal.TaxAmount)])
              = MoneyValue(xml.TaxTotal.TaxAmount)
        /\ MoneyValue(xml.LegalMonetaryTotal.TaxInclusiveAmount)
              = MoneyValue(xml.LegalMonetaryTotal.TaxExclusiveAmount)
                + MoneyValue(xml.TaxTotal.TaxAmount)

(***************************************************************************)
(* C10: every amount printed by the PDF and the XML generator is the exact *)
(* decimal product or sum rounded once to two decimals (either tie rule),  *)
(* without binary floating-point drift.                                    *)
(***************************************************************************)
C10_ExactDecimal ==
    LET n == Len(line_items)
    IN  /\ Ok(pdf_out) =>
            /\ \A i \in 1..n :
                  /\ MoneyValue(pdf.data[i].vat_amount)
                        \in Rounded2(ExactVat(line_items[i]))
                  /\ MoneyValue(pdf.data[i].total)
                        \in Rounded2(ExactGross(line_items[i]))
            /\ MoneyValue(pdf.totals.subtotal) \in Rounded2(SumNet(line_items))
            /\ MoneyValue(pdf.totals.vat_total) \in Rounded2(SumVat(line_items))
            /\ MoneyValue(pdf.totals.grand_total)
                  \in Rounded2(DAdd(SumNet(line_items), SumVat(line_items)))
        /\ Ok(xml_out) =>
            /\ \A i \in 1..n :
                  /\ MoneyValue(xml.InvoiceLine[i].LineExtensionAmount)
                        \in Rounded2(ExactNet(line_items[i]))
                  /\ MoneyValue(xml.InvoiceLine[i].TaxTotal.TaxAmount)
                        \in Rounded2(ExactVat(line_items[i]))
            /\ MoneyValue(xml.LegalMonetaryTotal.TaxExclusiveAmount)
                  \in Rounded2(SumNet(line_items))
            /\ MoneyValue(xml.TaxTotal.TaxAmount) \in Rounded2(SumVat(line_items))
            /\ MoneyValue(xml.LegalMonetaryTotal.PayableAmount)
                  \in Rounded2(DAdd(SumNet(line_items), SumVat(line_items)))

(***************************************************************************)
(* C11: when a QR field encodes to more than 255 UTF-8 bytes,              *)
(* generate_fatoora_qr either fails or returns a payload of five records   *)
(* with tags 1..5 whose length bytes are the byte counts of their values,  *)
(* each value being the field or a truncation of it; a length byte never   *)
(* wraps around.                                                           *)
(***************************************************************************)
IsPrefixOf(p, s) == Len(p) <= Len(s) /\ SubSeq(s, 1, Len(p)) = p

QrLengthsAgree(payload) ==
    LET recs == ParseTLV(b64decode(payload))
    IN  /\ Len(recs) = 5
        /\ \A i \in 1..5 : recs[i].tag = i /\ recs[i].length = Len(recs[i].value)
        /\ IsPrefixOf(recs[1].value, Utf8(QrSeller))
        /\ IsPrefixOf(recs[2].value, Utf8(QrTrn))

C11_NoLengthOverflow ==
    (Done(qr_out) /\ ~QrFieldsFit) => (~qr.ok \/ QrLengthsAgree(qr.text))

C11_Witness ==
    /\ Done(qr_out)
    /\ Len(Utf8(QrSeller)) = MaxByte + 1
    /\ Len(QrSeller) = MaxByte
    /\ ~qr.ok
    /\ qr.exc = "ValueError"

(***************************************************************************)
(* C12: generate_invoice_pdf and generate_invoice_xml never end with a     *)
(* propagated exception: each call ends with a complete document or with a *)
(* failure that is reported, not raised, also for an invoice without issue *)
(* date or with an over-long QR field.                                     *)
(***************************************************************************)
Raised(out) == Done(out) /\ ~Get(out).ok /\ "exc" \in DOMAIN Get(out)

C12_NeverRaises == ~Raised(pdf_out) /\ ~Raised(xml_out)

(***************************************************************************)
(* C13: when building the embedded QR image fails (the TLV cannot be       *)
(* encoded, or the image steps fail), generate_invoice_xml still returns   *)
(* the document, without any AdditionalDocumentReference, and every other  *)
(* element is what the document has when the embedding succeeds; an        *)
(* AdditionalDocumentReference that is present is complete.                *)
(***************************************************************************)
XmlPercentFails == Len(line_items) > 0 /\ IsNone(line_items[1].vat_rate)

XmlOtherElementsAs(doc, full) ==
    /\ full.ok
    /\ DOMAIN doc = DOMAIN full
    /\ \A k \in DOMAIN doc \ {"AdditionalDocumentReference"} : doc[k] = full[k]

XmlQrComplete(ref) ==
    /\ DOMAIN ref = {"ID", "png_of"}
    /\ ref.ID = "QR"
    /\ \E now \in ClockReadings(invoice) :
          LET tlv == generate_fatoora_qr(invoice, now)
          IN  tlv.ok /\ ref.png_of = b64decode(tlv.text)

C13_QrEmbedDegrades ==
    (Done(xml_out) /\ ~XmlPercentFails) =>
        /\ xml.ok
        /\ \E now \in ClockReadings(invoice) :
              XmlOtherElementsAs(xml, generate_invoice_xml(invoice, line_items, now, TRUE))
        /\ \/ xml.AdditionalDocumentReference = None
           \/ XmlQrComplete(Get(xml.AdditionalDocumentReference))
        /\ ~QrFieldsFit => xml.AdditionalDocumentReference = None

C13_Witness ==
    /\ Ok(xml_out)
    /\ ~QrFieldsFit
    /\ Len(line_items) = 1
    /\ xml.AdditionalDocumentReference = None
    /\ Len(xml.InvoiceLine) = 1

(***************************************************************************)
(* C14: an absent (None) optional Party field - issuer or client TRN,      *)
(* address, email, phone - is rendered as the empty string: the text       *)
(* "None" never stands in the PDF, the XML or the QR payload in place of   *)
(* the missing value.                                                      *)
(***************************************************************************)
\* how a field of the document must read for the stored optional value
RendersAs(text, value) ==
    IF IsNone(value) THEN text = << >> ELSE text = Get(value)

C14_AbsentFieldsEmpty ==
    /\ Ok(pdf_out) =>
          /\ RendersAs(pdf.company.trn, invoice.company.tax_registration_number)
          /\ RendersAs(pdf.company.phone, invoice.company.phone)
          /\ RendersAs(pdf.bill_to.trn, invoice.client.trn)
          /\ RendersAs(pdf.bill_to.phone, invoice.client.phone)
          /\ RendersAs(pdf.bill_to.email, invoice.client.email)
    /\ Ok(xml_out) =>
          /\ RendersAs(xml.AccountingSupplierParty.ID,
                       invoice.company.tax_registration_number)
          /\ RendersAs(xml.AccountingSupplierParty.PostalAddress.StreetName,
                       invoice.company.address)
          /\ RendersAs(xml.AccountingCustomerParty.ID, invoice.client.trn)
          /\ RendersAs(xml.AccountingCustomerParty.PostalAddress.StreetName,
                       invoice.client.address)
          /\ \A f \in {"ElectronicMail", "Telephone"} :
                /\ xml.AccountingSupplierParty.Contact[f] # Some(S_NoneText)
                /\ xml.AccountingCustomerParty.Contact[f] # Some(S_NoneText)
    /\ Ok(qr_out) =>
          RendersAs(QrTag(2), invoice.company.tax_registration_number)

(***************************************************************************)
(* C15: when the invoice has a place-of-supply region, the XML customer    *)
(* CityName and CountrySubentityCode and the PDF Bill-To emirate come from *)
(* the invoice's emirate, whatever the client's and the issuer's regions   *)
(* are; the XML customer takes the client's emirate, the client's city or  *)
(* the issuer's region only when the invoice has none.                     *)
(***************************************************************************)
CustomerAddress == xml.AccountingCustomerParty.PostalAddress

\* the first region that is set among the client's emirate, the client's
\* city and the issuer's emirate; Dubai when none is
RegionWithoutInvoice ==
    LET ce == GetAttr(invoice.client, "emirate", None)
        cc == GetAttr(invoice.client, "city", None)
    IN  IF Truthy(ce) THEN Get(ce)
        ELSE IF Truthy(cc) THEN Get(cc)
        ELSE IF Truthy(invoice.company.emirate) THEN Get(invoice.company.emirate)
        ELSE S_Dubai

C15_CustomerRegionFromInvoice ==
    /\ (Ok(xml_out) /\ Truthy(invoice.emirate)) =>
          /\ CustomerAddress.CityName = Get(invoice.emirate)
          /\ CustomerAddress.CountrySubentityCode = get_emirate_code(invoice.emirate)
    /\ (Ok(xml_out) /\ ~Truthy(invoice.emirate)) =>
          CustomerAddress.CityName = RegionWithoutInvoice
    /\ (Ok(pdf_out) /\ Truthy(invoice.emirate)) =>
          /\ pdf.bill_to.emirate = Get(get_emirate_display(invoice.emirate))
          /\ pdf.bill_to.emirate = pdf.place_of_supply

C15_Witness ==
    /\ Ok(xml_out) /\ Ok(pdf_out)
    /\ invoice.emirate = Some(S_AD)
    /\ GetAttr(invoice.client, "emirate", None) = Some(S_Fujairah)
    /\ GetAttr(invoice.client, "city", None) = Some(S_Ajman)
    /\ invoice.company.emirate = Some(S_RasAlKhaimah)
    /\ CustomerAddress.CityName = S_AD
    /\ CustomerAddress.CountrySubentityCode = S_AZ
    /\ pdf.bill_to.emirate = S_AbuDhabi

(***************************************************************************)
(* C16: on an unchanged invoice a second call of generate_fatoora_qr       *)
(* returns what the first returned, a second call of generate_invoice_xml  *)
(* that embeds the QR image returns what the first such call returned,     *)
(* also when the issue date is absent, and no call changes the invoice,    *)
(* its line items or its cached totals.                                    *)
(***************************************************************************)
XmlEmbedsQr(out) == Ok(out) /\ Get(out).AdditionalDocumentReference # None

C16_Deterministic ==
    [][ /\ (Done(qr_out) /\ Done(qr_out)') => qr_out' = qr_out
        /\ (XmlEmbedsQr(xml_out) /\ XmlEmbedsQr(xml_out)') => xml_out' = xml_out
        /\ invoice' = invoice
        /\ line_items' = line_items ]_vars

(***************************************************************************)
(* C17: the XML has one InvoiceLine per line item, in the stored order of  *)
(* the line items, with IDs 1..N; the PDF line table has one row per line  *)
(* item in the same order.                                                 *)
(***************************************************************************)
C17_LinesInOrder ==
    /\ Ok(xml_out) =>
          /\ DOMAIN xml.InvoiceLine = 1..Len(line_items)
          /\ \A i \in 1..Len(line_items) :
                /\ xml.InvoiceLine[i].ID = IntStr(i)
                /\ xml.InvoiceLine[i].Description = line_items[i].description
    /\ Ok(pdf_out) =>
          /\ DOMAIN pdf.data = 1..Len(line_items)
          /\ \A i \in 1..Len(line_items) :
                pdf.data[i].description = line_items[i].description

C17_Witness ==
    /\ Ok(xml_out) /\ Ok(pdf_out)
    /\ Len(line_items) = 2
    /\ line_items[1].description = "b"
    /\ line_items[2].description = "a"
    /\ xml.InvoiceLine[1].ID = << 49 >>
    /\ xml.InvoiceLine[2].ID = << 50 >>
    /\ xml.InvoiceLine[2].Description = "a"
    /\ pdf.data[1].description = "b"

(***************************************************************************)
(* C18: in every XML document PayableAmount is the same text as            *)
(* TaxInclusiveAmount, and TaxExclusiveAmount the same as the              *)
(* LegalMonetaryTotal LineExtensionAmount and the TaxSubtotal              *)
(* TaxableAmount.                                                          *)
(***************************************************************************)
C18_MonetaryTotalsCoincide ==
    Ok(xml_out) =>
        /\ xml.LegalMonetaryTotal.PayableAmount = xml.LegalMonetaryTotal.TaxInclusiveAmount
        /\ xml.LegalMonetaryTotal.TaxExclusiveAmount
              = xml.LegalMonetaryTotal.LineExtensionAmount
        /\ xml.LegalMonetaryTotal.TaxExclusiveAmount
              = xml.TaxTotal.TaxSubtotal.TaxableAmount

C18_Witness ==
    /\ Ok(xml_out)
    /\ Len(line_items) = 2
    /\ MoneyValue(xml.LegalMonetaryTotal.TaxExclusiveAmount) > 0
    /\ MoneyValue(xml.LegalMonetaryTotal.PayableAmount)
          > MoneyValue(xml.LegalMonetaryTotal.TaxExclusiveAmount)

(***************************************************************************)
(* C19: the allocator reads the tenant's invoice count and formats the     *)
(* number in separate, unlocked steps: every stored invoice of a tenant    *)
(* carries INV-{tenant_id:04d}-{count+1:04d} for the count its request     *)
(* read, so two invoices of one tenant whose requests read the same count  *)
(* carry the same number, and only those do; two creations that both read  *)
(* before either stores its row end as two invoices with one number.       *)
(***************************************************************************)
TenantRows == { i \in invoices : ~IsNone(i.company) }

C19_SameCountSameNumber ==
    /\ \A i \in TenantRows :
          i.invoice_number = S_INV \o Fmt04d(Get(i.company)) \o << 45 >>
                               \o Fmt04d(creating[i.id].count + 1)
    /\ \A i, j \in TenantRows :
          (i.company = j.company) =>
              ((i.invoice_number = j.invoice_number)
                  <=> (creating[i.id].count = creating[j.id].count))

\* two stored invoices of tenant 1 with the number INV-0001-0001
C19_Witness ==
    \E i, j \in invoices :
        /\ i.id # j.id
        /\ i.company = Some(1) /\ j.company = Some(1)
        /\ creating[i.id].count = 0 /\ creating[j.id].count = 0
        /\ i.invoice_number = j.invoice_number
        /\ i.invoice_number = << 73, 78, 86, 45, 48, 48, 48, 49, 45, 48, 48, 48, 49 >>

(***************************************************************************)
(* C20: when invoices are created one at a time, and deleted, no two       *)
(* stored invoices carry the same invoice number.                          *)
(***************************************************************************)
C20_NumbersUniqueSerially ==
    \A i, j \in invoices : (i.id # j.id) => (i.invoice_number # j.invoice_number)

(***************************************************************************)
(* C21: an invoice whose primary allocation fails (its tenant is missing)  *)
(* is still stored with a number, INV- followed by the first 8 hex         *)
(* characters of its UUID in upper case, and that number differs from the  *)
(* number of every other stored invoice.                                   *)
(***************************************************************************)
FallbackRows == { i \in invoices : IsNone(i.company) }

C21_FallbackUnique ==
    /\ \A r \in Requests :
          (creating[r].pc = "done" /\ IsNone(creating[r].company)) =>
              \A i \in invoices :
                  (i.id = r) =>
                      i.invoice_number = S_INV \o Upper(SubSeq(i.uuid, 1, 8))
    /\ \A i \in FallbackRows, j \in invoices :
          (i.id # j.id) => (i.invoice_number # j.invoice_number)

(***************************************************************************)
(* C22: through the payout endpoints a payout request is created PENDING   *)
(* and its status only moves PENDING -> APPROVED, PENDING -> REJECTED,     *)
(* PENDING -> CANCELLED or APPROVED -> PAID; approve, reject and cancel of *)
(* a request that is not PENDING, and mark-paid of a request that is not   *)
(* APPROVED, are answered with an error and leave the request as it was;   *)
(* PAID, REJECTED and CANCELLED are never left.                            *)
(***************************************************************************)
StatusMoves ==
    { << "PENDING", "APPROVED" >>, << "PENDING", "REJECTED" >>,
      << "PENDING", "CANCELLED" >>, << "APPROVED", "PAID" >> }

\* the state a request must be in for the endpoint to act on it
ActsOn(op) == IF op = "mark_paid" THEN "APPROVED" ELSE "PENDING"

\* the step is a call of one of the four endpoints on the stored request id
CallOn(id) ==
    /\ response' # None
    /\ response'[1].op \in {"approve", "reject", "cancel", "mark_paid"}
    /\ response'[1].payout = id

C22_StatusMoves ==
    [][/\ \A id \in DOMAIN payouts' :
             IF id \in DOMAIN payouts
             THEN \/ payouts'[id].status = payouts[id].status
                  \/ << payouts[id].status, payouts'[id].status >> \in StatusMoves
             ELSE payouts'[id].status = "PENDING"
       /\ \A id \in DOMAIN payouts :
             (CallOn(id) /\ payouts[id].status # ActsOn(response'[1].op)) =>
                 /\ response'[1].status >= 400
                 /\ payouts'[id] = payouts[id]]_vars

\* a request that went PENDING -> APPROVED -> PAID, and a call on it refused
C22_Witness ==
    \E id \in DOMAIN payouts :
        /\ payouts[id].status = "PAID"
        /\ response # None
        /\ response[1].op \in {"approve", "reject", "cancel"}
        /\ response[1].payout = id
        /\ response[1].status = 400

(***************************************************************************)
(* C23: when the payout operations are handled one at a time and           *)
(* commissions are only added, for every partner the amounts of its        *)
(* APPROVED and PAID payout requests never sum to more than its PAID       *)
(* commissions, and its available_balance is never negative.               *)
(***************************************************************************)
C23_NoOverdraft ==
    \A p \in Partners :
        /\ SumAmount(CountedPayouts(Db, p)) <= SumAmount(PaidCommissions(Db, p))
        /\ partners[p].available_balance >= 0

\* an approval refused for want of balance: the partner's earnings of 60.00
\* carry one approved request of 60.00 and cannot carry the second
C23_Witness ==
    /\ response # None
    /\ response[1].op = "approve"
    /\ response[1].error = "balance"
    /\ \E id, other \in DOMAIN payouts :
          /\ id = response[1].payout
          /\ other # id
          /\ payouts[id].status = "PENDING"
          /\ payouts[other].status \in {"APPROVED", "PAID"}
          /\ payouts[other].partner = payouts[id].partner
          /\ payouts[id].amount + payouts[other].amount
                > SumAmount(PaidCommissions(Db, payouts[id].partner))

(***************************************************************************)
(* C24: when the steps of two admin_approve_payout calls for two PENDING   *)
(* requests of one partner interleave and the two amounts together exceed  *)
(* the partner's balance, at most one of the requests ends APPROVED, and   *)
(* available_balance does not become negative.                             *)
(***************************************************************************)
C24_ApprovalsSafe ==
    /\ \A id, other \in DOMAIN payouts :
          (/\ id # other
           /\ payouts[id].partner = payouts[other].partner
           /\ payouts[id].status = "APPROVED"
           /\ payouts[other].status = "APPROVED") =>
              payouts[id].amount + payouts[other].amount
                 <= SumAmount(PaidCommissions(Db, payouts[id].partner))
    /\ \A p \in Partners : partners[p].available_balance >= 0

(***************************************************************************)
(* C25: after a payout endpoint call that got as far as its balance update *)
(* (create, cancel, approve, reject, mark-paid, balance), the partner's    *)
(* stored figures agree with the rows: total_earnings is the sum of its    *)
(* PAID commissions, total_paid_out the sum of its APPROVED and PAID       *)
(* payout requests, available_balance their difference; PENDING, REJECTED  *)
(* and CANCELLED requests count for nothing.                               *)
(***************************************************************************)
RECURSIVE TotalAmount(_, _)
TotalAmount(rows, ids) ==
    IF ids = {} THEN 0
    ELSE rows[CHOOSE i \in ids : TRUE].amount
            + TotalAmount(rows, ids \ {CHOOSE i \in ids : TRUE})

\* the sum of count * amount over the kinds of PAID commission rows of p
RECURSIVE TotalOfKinds(_)
TotalOfKinds(kinds) ==
    IF kinds = {} THEN 0
    ELSE (CHOOSE k \in kinds : TRUE).amount * CopiesIn(CHOOSE k \in kinds : TRUE, commissions)
            + TotalOfKinds(kinds \ {CHOOSE k \in kinds : TRUE})

PaidCommissionTotal(p) ==
    TotalOfKinds({ k \in DOMAIN commissions : k.partner = p /\ k.status = "PAID" })

ApprovedOrPaidTotal(p) ==
    TotalAmount(payouts,
                { i \in DOMAIN payouts :
                    payouts[i].partner = p /\ payouts[i].status \in {"APPROVED", "PAID"} })

InSync(p) ==
    /\ partners[p].total_earnings = PaidCommissionTotal(p)
    /\ partners[p].total_paid_out = ApprovedOrPaidTotal(p)
    /\ partners[p].available_balance
          = partners[p].total_earnings - partners[p].total_paid_out

\* the partners the call of the response is about: the caller's own for
\* create, cancel and balance, the request's for the admin endpoints
ResponsePartners(r) ==
    IF r.op \in {"create", "cancel", "balance"}
    THEN { p \in Partners : PartnerOf(r.user) = Some(p) }
    ELSE { p \in Partners : r.payout \in DOMAIN payouts /\ payouts[r.payout].partner = p }

\* the call was not answered before its update_balance()
ReachedUpdate(r) ==
    \/ r.status \in {200, 201}
    \/ r.op = "create" /\ r.status = 400
    \/ r.error \in {"balance", "transaction"}

C25_InSyncAfterUpdate ==
    (response # None /\ ReachedUpdate(response[1])) =>
        \A p \in ResponsePartners(response[1]) : InSync(p)

\* the claim as stated: in sync after every call, refused or not
C25_InSyncAfterEveryCall ==
    (response # None) => \A p \in ResponsePartners(response[1]) : InSync(p)

\* a payment marked paid for a partner who also has a PENDING request
C25_Witness ==
    /\ response # None
    /\ response[1].op = "mark_paid"
    /\ response[1].status = 200
    /\ \E p \in ResponsePartners(response[1]) :
          /\ partners[p].total_earnings = 6000
          /\ partners[p].total_paid_out = 6000
          /\ partners[p].available_balance = 0
          /\ \E i \in DOMAIN payouts :
                payouts[i].partner = p /\ payouts[i].status = "PENDING"

(***************************************************************************)
(* C26: every payout request created through create_payout_request is     *)
(* PENDING, of at least 50.00 AED and of no more than the partner's        *)
(* available balance as recomputed by the validation; a call whose amount  *)
(* breaks either bound is answered with a validation error and creates     *)
(* neither a payout request nor a notification.                            *)
(***************************************************************************)
\* the step is a call of create_payout_request
CreateCall == response' # None /\ response'[1].op = "create"

\* the partner's balance as the rows before the call give it
BalanceOfRows(p) == PaidCommissionTotal(p) - ApprovedOrPaidTotal(p)

\* a call whose amount breaks a bound: what it answers and what it leaves
RefusedOutsideBounds ==
    \A p \in Partners, amount \in PayoutAmounts :
        (amount < MinPayout \/ amount > BalanceOfRows(p)) =>
            /\ create_payout_request(Db, PartnerUser(p), amount).response.status = 400
            /\ create_payout_request(Db, PartnerUser(p), amount).db.payouts = payouts
            /\ create_payout_request(Db, PartnerUser(p), amount).db.notifications
                  = notifications

C26_CreateBounds ==
    /\ []RefusedOutsideBounds
    /\ [][CreateCall =>
             /\ \A id \in DOMAIN payouts' \ DOMAIN payouts :
                   /\ payouts'[id].status = "PENDING"
                   /\ payouts'[id].amount >= MinPayout
                   /\ payouts'[id].amount <= BalanceOfRows(payouts'[id].partner)
                   /\ payouts'[id].amount
                         <= partners'[payouts'[id].partner].available_balance
                   /\ response'[1].status = 201
             /\ (response'[1].status # 201) =>
                   (payouts' = payouts /\ notifications' = notifications)]_vars

\* a request of 60.00 created against a balance of 60.00, and the partner
\* notified of it
C26_Witness ==
    /\ response # None
    /\ response[1].op = "create"
    /\ response[1].status = 201
    /\ payouts[response[1].payout] =
          [partner |-> response[1].user, amount |-> 6000, status |-> "PENDING"]
    /\ partners[response[1].user].available_balance = 6000
    /\ Notices(notifications, response[1].user, "payout_submitted", response[1].payout) = 1

(***************************************************************************)
(* C27: after any number of saves of the UserProfile of a user whose       *)
(* referral code is a partner's, that partner has exactly one notification *)
(* of type "signup" about the user and the user has exactly one            *)
(* PartnerClient, created inactive; a referral code that is no partner's   *)
(* creates neither.                                                        *)
(***************************************************************************)
\* the partners whose code the user's profile carried at one of its saves
ReferredBy(user) ==
    { p \in Partners : Some(ReferralCode(p)) \in profiles[user].used }

ClientRows(user) ==
    { i \in DOMAIN partner_clients : partner_clients[i].client_user = user }

C27_OneSignupNotification ==
    \A user \in ClientUsers :
        /\ \A p \in Partners :
              Notices(notifications, PartnerUser(p), "signup", user)
                 = (IF p \in ReferredBy(user) THEN 1 ELSE 0)
        /\ IF ReferredBy(user) = {}
           THEN ClientRows(user) = {}
           ELSE /\ Cardinality(ClientRows(user)) = 1
                /\ \A i \in ClientRows(user) :
                      /\ ~partner_clients[i].is_active
                      /\ partner_clients[i].partner \in ReferredBy(user)

\* a profile saved three times with partner 1's code, and a profile saved
\* with nobody's code
C27_Witness ==
    \E user, other \in ClientUsers :
        /\ profiles[user].saves = MaxSaves
        /\ profiles[user].used = {Some(ReferralCode(1))}
        /\ Notices(notifications, PartnerUser(1), "signup", user) = 1
        /\ Cardinality(ClientRows(user)) = 1
        /\ profiles[other].used = {Some(UnknownCode)}
        /\ ClientRows(other) = {}

(***************************************************************************)
(* C28: a payout request is PAID exactly when one PayoutTransaction exists *)
(* for it; the transaction is created by admin_mark_paid for the request   *)
(* it marks PAID, with amount = net_amount = the request's amount and      *)
(* currency AED; no request has two transactions, and no request is PAID   *)
(* without one, also when creating the transaction fails.                  *)
(***************************************************************************)
TransactionsOf(id) ==
    { i \in DOMAIN payout_transactions : payout_transactions[i].payout_request = id }

C28_PaidIffTransaction ==
    /\ \A id \in DOMAIN payouts :
          Cardinality(TransactionsOf(id)) = (IF payouts[id].status = "PAID" THEN 1 ELSE 0)
    /\ \A i \in DOMAIN payout_transactions :
          /\ payout_transactions[i].payout_request \in DOMAIN payouts
          /\ payout_transactions[i].amount
                = payouts[payout_transactions[i].payout_request].amount
          /\ payout_transactions[i].net_amount = payout_transactions[i].amount
          /\ payout_transactions[i].currency = "AED"
          /\ payout_transactions[i].partner
                = payouts[payout_transactions[i].payout_request].partner

(***************************************************************************)
(* C29: each successful approval of a payout request gives the partner     *)
(* exactly one notification that the request was approved, and nothing     *)
(* else does: not the creation, cancel, reject or mark-paid, and not a     *)
(* later save of a request that is already approved.                       *)
(***************************************************************************)
\* the notifications telling the partner that request id was approved: the
\* view's "payout_approved" and the post_save receiver's "payout"
ApprovalNotices(id) ==
    Notices(notifications, PartnerUser(payouts[id].partner), "payout_approved", id)
       + Notices(notifications, PartnerUser(payouts[id].partner), "payout", id)

C29_OneApprovalNotification ==
    \A id \in DOMAIN payouts :
        ApprovalNotices(id) = (IF payouts[id].status \in {"APPROVED", "PAID"} THEN 1 ELSE 0)

(***************************************************************************)
(* C30: approve, reject and mark-paid called by a user who is not staff    *)
(* are answered 403, and cancel called by a partner for a payout request   *)
(* of another partner is answered 404; in each case the request's status,  *)
(* every partner's balance figures, the payout transactions and the        *)
(* notifications are left as they were.                                    *)
(***************************************************************************)
\* the step is a call of an admin endpoint by a user who is not staff
NonStaffCall ==
    /\ response' # None
    /\ response'[1].op \in {"approve", "reject", "mark_paid"}
    /\ response'[1].user \notin Staff

\* the step is a cancel by a partner of a stored request of another partner
ForeignCancel ==
    /\ response' # None
    /\ response'[1].op = "cancel"
    /\ response'[1].user \in Partners
    /\ response'[1].payout \in DOMAIN payouts
    /\ payouts[response'[1].payout].partner # response'[1].user

NothingChanged ==
    /\ payouts' = payouts
    /\ partners' = partners
    /\ payout_transactions' = payout_transactions
    /\ notifications' = notifications

C30_UnauthorisedChangesNothing ==
    [][/\ NonStaffCall => (response'[1].status = 403 /\ NothingChanged)
       /\ ForeignCancel => (response'[1].status = 404 /\ NothingChanged)]_vars

\* partner 2 has asked to cancel a PENDING request of partner 1 and was
\* answered 404
C30_Witness ==
    /\ response # None
    /\ response[1].op = "cancel"
    /\ response[1].user = 2
    /\ response[1].status = 404
    /\ response[1].payout \in DOMAIN payouts
    /\ payouts[response[1].payout].partner = 1
    /\ payouts[response[1].payout].status = "PENDING"

====
